---- MODULE Spec2Model ----
(***************************************************************************)
(* Text2BPMN: the lane partition / normalise / render / merge pipeline of  *)
(* src/src/core/generator.py, src/src/core/merger.py,                      *)
(* src/src/core/validator.py and src/src/core/layout.py, and the           *)
(* description check of src/src/utils/file_handler.py.                     *)
(*                                                                         *)
(* Python dicts are functions whose DOMAIN is the set of keys, Python      *)
(* lists are sequences.  An XML document is a record of its process        *)
(* children, its lanes and the children of its diagram plane.              *)
(***************************************************************************)
EXTENDS Integers, Sequences, FiniteSets, TLC

VARIABLES
    pc,              \* position of generate_bpmn / merge_lanes
    description,     \* the argument of validate_description
    validated,       \* what validate_description returned
    process_description, \* the argument of generate_bpmn
    clean_and_validate_defined, \* whether generator.py:75 resolves to validate_and_clean
    layout_world,    \* the answers the layout tool may give
    attempt,         \* _generate_process_json: iterations of the attempt loop begun
    last_error,      \* _generate_process_json: last_error
    responses,       \* history: what call_llm("01_generate_json.txt") was given and returned
    json_bpmn,       \* process_json["bpmn"], mutated in place by _extract_all_lanes
    input_lanes,     \* history: the lanes of json_bpmn as the generative step returned them
    same_flow,       \* same_flow["sequenceFlows"]   (dict lane id -> list)
    different_flow,  \* different_flow["sequenceFlows"] (list)
    all_lanes,       \* result of _extract_all_lanes
    again_lanes,     \* result of a second _extract_all_lanes over the same json_bpmn
    render_calls,    \* history: the lanes call_llm("02_generate_little_xml.txt") was given
    render_answers,  \* history: what those calls were answered
    xml_lanes_list,  \* generate_bpmn: xml_lanes_list
    layout_calls,    \* history: the fragments apply_layout was given
    layout_answers,  \* history: the lengths and the exit of the layout tool's answers
    set_lanes,       \* merge_lanes: set_lanes
    merged_from,     \* history: indices of the fragments merge_xml_lanes folded in
    merged_xml,      \* merge_lanes: merged_xml
    complete_xml,    \* merge_lanes: merged_with_flows, then complete_xml
    again_xml,       \* add_sequence_flows_from_json applied to its own output
    again_set_lanes, \* add_lane_shape applied to its own outputs
    result,          \* what generate_bpmn returned
    error,           \* the exception that ended the run, or NoError
    stage_error        \* the exception as the stage raised it, or NoError

vars == << pc, description, validated, process_description, clean_and_validate_defined, layout_world, attempt,
           last_error, responses, json_bpmn, input_lanes, same_flow, different_flow,
           all_lanes, again_lanes, render_calls, render_answers, xml_lanes_list,
           layout_calls, layout_answers, set_lanes, merged_from, merged_xml,
           complete_xml, again_xml, again_set_lanes, result, error, stage_error >>

-----------------------------------------------------------------------------
(* Generic helpers *)

None == "<None>"
\* An exception: its class, its message, the class of its cause and, for the error of
\* an attempt of the JSON step, the attempt it was raised in.
NoError == [kind |-> "none", msg |-> "none", cause |-> "none", cause_attempt |-> 0]
Exc(kind, msg, cause) == [kind |-> kind, msg |-> msg, cause |-> cause, cause_attempt |-> 0]

Range(s) == { s[i] : i \in DOMAIN s }
EmptyDict == [k \in {} |-> <<>>]

\* Python truthiness of an optional string: None and "" are falsy.
Truthy(v) == v /= None /\ v /= ""

\* dict.get(key) with the default None.
Get(d, k) == IF k \in DOMAIN d THEN d[k] ELSE None

\* dict.get(key, []) for a dict of lists.
GetList(d, k) == IF k \in DOMAIN d THEN d[k] ELSE <<>>

\* Number of positions of s that satisfy the type test.
CountType(elements, type) == Cardinality({ i \in DOMAIN elements : elements[i].type = type })

-----------------------------------------------------------------------------
(* generator.py: _extract_all_sequence_flows *)

\* Lines 191-193: a later lane overwrites an earlier one for the same element id.
RECURSIVE IndexElements(_, _, _)
IndexElements(elements, lane_id, element_to_lane) ==
    IF elements = <<>> THEN element_to_lane
    ELSE IndexElements(Tail(elements), lane_id,
                       (Head(elements).id :> lane_id) @@ element_to_lane)

RECURSIVE ElementToLane(_, _)
ElementToLane(lanes, element_to_lane) ==
    IF lanes = <<>> THEN element_to_lane
    ELSE ElementToLane(Tail(lanes),
                       IndexElements(Head(lanes).elements, Head(lanes).id, element_to_lane))

\* Line 199 as a bug would have it: the lanes are not compared.
SameLaneTestLoose(source_lane, target_lane) ==
    Truthy(source_lane) /\ Truthy(target_lane)

\* Line 199: `if source_lane and target_lane and source_lane == target_lane`.
SameLaneTest(source_lane, target_lane) ==
    Truthy(source_lane) /\ Truthy(target_lane) /\ source_lane = target_lane

\* Lines 195-204.
RECURSIVE FileFlows(_, _, _, _)
FileFlows(sequence_flows, element_to_lane, same, different) ==
    IF sequence_flows = <<>> THEN [same |-> same, different |-> different]
    ELSE LET flow == Head(sequence_flows)
             source_lane == Get(element_to_lane, flow.sourceRef)
             target_lane == Get(element_to_lane, flow.targetRef)
         IN  IF SameLaneTest(source_lane, target_lane)
             THEN FileFlows(Tail(sequence_flows), element_to_lane,
                            (source_lane :> Append(GetList(same, source_lane), flow)) @@ same,
                            different)
             ELSE FileFlows(Tail(sequence_flows), element_to_lane,
                            same, Append(different, flow))

\* Lines 184-185 and 192: the keys the function subscripts.
PartitionKeysPresent(bpmn) ==
    /\ "sequenceFlows" \in DOMAIN bpmn
    /\ "lanes" \in DOMAIN bpmn
    /\ \A i \in DOMAIN bpmn.lanes : "elements" \in DOMAIN bpmn.lanes[i]

\* The whole function: a KeyError, or the two buckets.
ExtractAllSequenceFlows(bpmn) ==
    IF ~PartitionKeysPresent(bpmn)
    THEN [exc |-> "KeyError", same |-> EmptyDict, different |-> <<>>]
    ELSE LET r == FileFlows(bpmn.sequenceFlows,
                            ElementToLane(bpmn.lanes, EmptyDict), EmptyDict, <<>>)
         IN  [exc |-> None, same |-> r.same, different |-> r.different]

-----------------------------------------------------------------------------
(* generator.py: _extract_all_lanes and _add_flows_to_lane *)

MockStart == [id |-> "mock_start_event", type |-> "startEvent"]
MockEnd == [id |-> "mock_end_event", type |-> "endEvent"]

\* Lines 278-280 as a bug would have it: the list is replaced, not extended.
AddFlowsToLaneReplace(lane, flows_for_lane) ==
    [id |-> lane.id, elements |-> lane.elements, sequenceFlows |-> flows_for_lane]

\* Lines 278-280: create the list when the key is absent, then extend it.
AddFlowsToLane(lane, flows_for_lane) ==
    [id |-> lane.id, elements |-> lane.elements,
     sequenceFlows |-> (IF "sequenceFlows" \in DOMAIN lane
                        THEN lane.sequenceFlows ELSE <<>>) \o flows_for_lane]

\* Line 230 as a bug would have it: a mock start is added whatever the lane holds.
NeedsMockStartAlways(elements) == TRUE

\* Line 230: no element of type startEvent.
NeedsMockStart(elements) == ~ \E i \in DOMAIN elements : elements[i].type = "startEvent"

\* Line 245 as a bug would have it: a mock end is added whatever the lane holds.
NeedsMockEndAlways(elements) == TRUE

\* Line 245: no element of type endEvent.
NeedsMockEnd(elements) == ~ \E i \in DOMAIN elements : elements[i].type = "endEvent"

\* Lines 229-242.  elements[1] of the Python list is position 2 here; with fewer than
\* two elements after the insert the subscript raises IndexError, after the insert.
AddMockStart(lane) ==
    IF ~NeedsMockStart(lane.elements) THEN [exc |-> None, lane |-> lane]
    ELSE LET elements == <<MockStart>> \o lane.elements
         IN  IF Len(elements) < 2
             THEN [exc |-> "IndexError",
                   lane |-> [lane EXCEPT !.elements = elements]]
             ELSE [exc |-> None,
                   lane |-> [lane EXCEPT
                       !.elements = elements,
                       !.sequenceFlows =
                           << [id |-> "mock_start_event_flow",
                               sourceRef |-> elements[1].id,
                               targetRef |-> elements[2].id] >> \o @]]

\* Lines 244-257.  elements[-2] and elements[-1] of the Python list.
AddMockEnd(lane) ==
    IF ~NeedsMockEnd(lane.elements) THEN [exc |-> None, lane |-> lane]
    ELSE LET elements == Append(lane.elements, MockEnd)
             n == Len(elements)
         IN  IF n < 2
             THEN [exc |-> "IndexError",
                   lane |-> [lane EXCEPT !.elements = elements]]
             ELSE [exc |-> None,
                   lane |-> [lane EXCEPT
                       !.elements = elements,
                       !.sequenceFlows =
                           Append(@, [id |-> "end_event_flow",
                                      sourceRef |-> elements[n - 1].id,
                                      targetRef |-> elements[n].id])]]

\* One iteration of the loop of lines 224-259.
NormalizeLane(lane, same) ==
    LET withFlows == AddFlowsToLane(lane, GetList(same, lane.id))
        started == AddMockStart(withFlows)
    IN  IF started.exc /= None THEN started ELSE AddMockEnd(started.lane)

\* The loop: the first exception ends it; the lanes are dicts of json_bpmn, so what
\* was done to them before the exception stays done.
RECURSIVE NormalizeLanes(_, _, _)
NormalizeLanes(lanes, same, done) ==
    IF lanes = <<>> THEN [exc |-> None, lanes |-> done]
    ELSE LET r == NormalizeLane(Head(lanes), same)
         IN  IF r.exc /= None
             THEN [exc |-> r.exc, lanes |-> Append(done, r.lane) \o Tail(lanes)]
             ELSE NormalizeLanes(Tail(lanes), same, Append(done, r.lane))

ExtractAllLanes(bpmn, same) == NormalizeLanes(bpmn.lanes, same, <<>>)

-----------------------------------------------------------------------------
(* Identifiers as text.  TLA+ strings are atoms, so the spelling of every identifier
   of the model is tabulated, and the substring test of merger.py is computed on it. *)

IdText ==
    "a1" :> <<"a","1">> @@
    "a2" :> <<"a","2">> @@
    "a3" :> <<"a","3">> @@
    "a4" :> <<"a","4">> @@
    "b1" :> <<"b","1">> @@
    "b2" :> <<"b","2">> @@
    "b3" :> <<"b","3">> @@
    "b4" :> <<"b","4">> @@
    "c1" :> <<"c","1">> @@
    "c2" :> <<"c","2">> @@
    "c3" :> <<"c","3">> @@
    "c4" :> <<"c","4">> @@
    "d1" :> <<"d","1">> @@
    "d2" :> <<"d","2">> @@
    "d3" :> <<"d","3">> @@
    "d4" :> <<"d","4">> @@
    "lane_1" :> <<"l","a","n","e","_","1">> @@
    "lane_2" :> <<"l","a","n","e","_","2">> @@
    "lane_3" :> <<"l","a","n","e","_","3">> @@
    "lane_4" :> <<"l","a","n","e","_","4">> @@
    "flow_1" :> <<"f","l","o","w","_","1">> @@
    "flow_2" :> <<"f","l","o","w","_","2">> @@
    "flow_3" :> <<"f","l","o","w","_","3">> @@
    "flow_4" :> <<"f","l","o","w","_","4">> @@
    "flow_a1" :> <<"f","l","o","w","_","a","1">> @@
    "flow_a2" :> <<"f","l","o","w","_","a","2">> @@
    "flow_a3" :> <<"f","l","o","w","_","a","3">> @@
    "flow_b1" :> <<"f","l","o","w","_","b","1">> @@
    "flow_b2" :> <<"f","l","o","w","_","b","2">> @@
    "flow_b3" :> <<"f","l","o","w","_","b","3">> @@
    "flow_c1" :> <<"f","l","o","w","_","c","1">> @@
    "flow_c2" :> <<"f","l","o","w","_","c","2">> @@
    "flow_c3" :> <<"f","l","o","w","_","c","3">> @@
    "flow_d1" :> <<"f","l","o","w","_","d","1">> @@
    "flow_d2" :> <<"f","l","o","w","_","d","2">> @@
    "flow_d3" :> <<"f","l","o","w","_","d","3">> @@
    "mock_start_event" :> <<"m","o","c","k","_","s","t","a","r","t","_","e","v","e","n","t">> @@
    "mock_start_event_flow" :> <<"m","o","c","k","_","s","t","a","r","t","_","e","v","e","n","t","_","f","l","o","w">> @@
    "mock_end_event" :> <<"m","o","c","k","_","e","n","d","_","e","v","e","n","t">> @@
    "end_event_flow" :> <<"e","n","d","_","e","v","e","n","t","_","f","l","o","w">> @@
    "remock_start" :> <<"r","e","m","o","c","k","_","s","t","a","r","t">> @@
    "Mock_End_review" :> <<"M","o","c","k","_","E","n","d","_","r","e","v","i","e","w">> @@
    "unmock_starter" :> <<"u","n","m","o","c","k","_","s","t","a","r","t","e","r">> @@
    "MOCK_ENDPOINT" :> <<"M","O","C","K","_","E","N","D","P","O","I","N","T">> @@
    "process_participant_1" :> <<"p","r","o","c","e","s","s","_","p","a","r","t","i","c","i","p","a","n","t","_","1">> @@
    "flow_Mock_End_review" :> <<"f","l","o","w","_","M","o","c","k","_","E","n","d","_","r","e","v","i","e","w">> @@
    "flow_remock_start" :> <<"f","l","o","w","_","r","e","m","o","c","k","_","s","t","a","r","t">> @@
    "flow_MOCK_ENDPOINT" :> <<"f","l","o","w","_","M","O","C","K","_","E","N","D","P","O","I","N","T">> @@
    "flow_unmock_starter" :> <<"f","l","o","w","_","u","n","m","o","c","k","_","s","t","a","r","t","e","r">> @@
    "" :> <<>>

\* str.lower() on the letters that occur in the identifiers above.
LowerChar(c) ==
    CASE c = "C" -> "c" [] c = "D" -> "d" [] c = "E" -> "e" [] c = "I" -> "i"
      [] c = "K" -> "k" [] c = "M" -> "m" [] c = "N" -> "n" [] c = "O" -> "o"
      [] c = "P" -> "p" [] c = "R" -> "r" [] c = "S" -> "s" [] c = "T" -> "t"
      [] OTHER -> c
Lower(text) == [i \in DOMAIN text |-> LowerChar(text[i])]

\* `needle in text`
Contains(text, needle) ==
    \E i \in 1..(Len(text) - Len(needle) + 1) :
        SubSeq(text, i, i + Len(needle) - 1) = needle

MockStartText == <<"m","o","c","k","_","s","t","a","r","t">>
MockEndText == <<"m","o","c","k","_","e","n","d">>

\* merger.py 576-580 as a bug would have it: only the start marker is looked for.
IsMockElementStartOnly(element_id) ==
    IF element_id = None THEN FALSE
    ELSE Contains(Lower(IdText[element_id]), MockStartText)

\* merger.py 576-580: _is_mock_element.
IsMockElement(element_id) ==
    IF element_id = None THEN FALSE
    ELSE \/ Contains(Lower(IdText[element_id]), MockStartText)
         \/ Contains(Lower(IdText[element_id]), MockEndText)

-----------------------------------------------------------------------------
(* XML documents.
   children : the children of bpmn:process other than the laneSet, in document order;
              a flow node is [tag, id], a sequenceFlow also has sourceRef/targetRef
   lanes    : the bpmn:lane elements of the laneSet, each with its flowNodeRef texts
   plane    : the BPMNShape / BPMNEdge children of the BPMNPlane, in document order
   decl, balanced, definitions : what XMLValidator.validate looks for in the text *)

FlowNodeTags == { "startEvent", "endEvent", "task" }

Node(tag, id) == [tag |-> tag, id |-> id, sourceRef |-> None, targetRef |-> None]
SeqFlow(flow) ==
    [tag |-> "sequenceFlow", id |-> flow.id,
     sourceRef |-> flow.sourceRef, targetRef |-> flow.targetRef]

Shape(element, horizontal, x, y, width, height) ==
    [tag |-> "BPMNShape", bpmnElement |-> element, isHorizontal |-> horizontal,
     x |-> x, y |-> y, width |-> width, height |-> height, waypoints |-> <<>>]
Edge(element, waypoints) ==
    [tag |-> "BPMNEdge", bpmnElement |-> element, isHorizontal |-> FALSE,
     x |-> 0, y |-> 0, width |-> 0, height |-> 0, waypoints |-> waypoints]

EmptyDoc ==
    [decl |-> FALSE, balanced |-> TRUE, definitions |-> FALSE,
     process |-> FALSE, children |-> <<>>, laneSet |-> FALSE, lanes |-> <<>>,
     hasPlane |-> FALSE, plane |-> <<>>, participant |-> None]

\* Element.find with a [@bpmnElement='id'] predicate: the first match in document
\* order, or NoShape for None.
NoShape == Edge(None, <<>>)
RECURSIVE FindShape(_, _)
FindShape(plane, element_id) ==
    IF plane = <<>> THEN NoShape
    ELSE IF Head(plane).tag = "BPMNShape" /\ Head(plane).bpmnElement = element_id
         THEN Head(plane)
         ELSE FindShape(Tail(plane), element_id)

Min(a, b) == IF a < b THEN a ELSE b
Max(a, b) == IF a > b THEN a ELSE b

-----------------------------------------------------------------------------
(* validator.py *)

\* validator.py 25-46: validate.  The text holds the word startEvent (endEvent,
\* process) exactly when the document holds such an element.
HasTag(doc, tag) == \E i \in DOMAIN doc.children : doc.children[i].tag = tag
Validate(doc) ==
    IF doc = EmptyDoc THEN "Empty XML content"
    ELSE IF ~doc.decl THEN "Missing XML declaration"
    ELSE IF ~doc.definitions THEN "Missing required BPMN element"
    ELSE IF ~doc.process THEN "Missing required BPMN element"
    ELSE IF ~HasTag(doc, "startEvent") THEN "Missing required BPMN element"
    ELSE IF ~HasTag(doc, "endEvent") THEN "Missing required BPMN element"
    ELSE IF ~doc.balanced THEN "Malformed XML: Unbalanced tags detected"
    ELSE None

\* validator.py 12-22: clean_xml removes the code fences.
CleanXml(text) == [text EXCEPT !.fenced = FALSE]

\* A remove_file_wrapper that takes any text for a wrapped one.
RemoveFileWrapperAny(text) == [found |-> TRUE, fenced |-> text.fenced, doc |-> text.doc]

\* validator.py 48-55: remove_file_wrapper; `found` is whether the pattern matched.
RemoveFileWrapper(text) ==
    [found |-> text.wrapped, fenced |-> text.fenced, doc |-> text.doc]

\* validator.py 25-35 on a text: a fenced text does not start with <?xml.
ValidateText(text) ==
    IF text.fenced /\ text.doc /= EmptyDoc THEN "Missing XML declaration"
    ELSE Validate(text.doc)

\* validator.py 57-64: validate_and_clean; the error message, or None and the text.
ValidateAndClean(text) ==
    LET xml == CleanXml(text)
    IN  [msg |-> ValidateText(xml), xml |-> xml.doc]

-----------------------------------------------------------------------------
(* The generative collaborator's rendering of one lane (prompt 02_generate_little_xml)
   and the layout collaborator's output. *)

\* The fragment a lane is rendered to: every element and every flow of the lane's
\* JSON, one lane whose flowNodeRefs list the lane's elements, no diagram yet.
RenderedDoc(lane) ==
    [decl |-> TRUE, balanced |-> TRUE, definitions |-> TRUE,
     process |-> TRUE,
     children |-> [j \in DOMAIN lane.elements |->
                      Node(lane.elements[j].type, lane.elements[j].id)]
                  \o [j \in DOMAIN lane.sequenceFlows |-> SeqFlow(lane.sequenceFlows[j])],
     laneSet |-> TRUE,
     lanes |-> << [id |-> lane.id,
                   refs |-> [j \in DOMAIN lane.elements |-> lane.elements[j].id]] >>,
     hasPlane |-> FALSE, plane |-> <<>>, participant |-> None]

\* What the answer may look like: as asked for, inside markdown code fences, without
\* the <file> wrapper, without the XML declaration, or with an unbalanced tag.
RenderDefects == { "none", "fenced", "no_file_wrapper", "no_declaration", "unbalanced" }

\* The answer as text: the document, whether <file>...</file> surrounds it and
\* whether code fences surround the document inside.
Rendered(lane, defect) ==
    [wrapped |-> defect /= "no_file_wrapper",
     fenced |-> defect = "fenced",
     doc |-> [RenderedDoc(lane) EXCEPT !.decl = defect /= "no_declaration",
                                       !.balanced = defect /= "unbalanced"]]

\* The length of the text of a document: a fixed frame and a part for every element,
\* lane, reference and diagram entry.
TextLength(doc) ==
    303 + 61 * Len(doc.children) + 40 * Len(doc.lanes) + 90 * Len(doc.plane)

\* The lengths of the layout tool's answers, relative to the length of its input:
\* nothing, half of it, just less than four fifths, just four fifths or more, longer.
OutSizes == { "empty", "half", "just_below", "just_enough", "longer" }
OutLength(in_len, size) ==
    CASE size = "empty" -> 0
      [] size = "half" -> in_len \div 2
      [] size = "just_below" -> ((4 * in_len + 4) \div 5) - 1
      [] size = "just_enough" -> (4 * in_len + 4) \div 5
      [] OTHER -> in_len + 400

\* What the layout tool may answer: how it exits, how long its output is, whether the
\* output holds a diagram plane and the geometry g of the diagram.
LayoutAnswer(exit, size, plane, g) == [exit |-> exit, size |-> size, plane |-> plane, g |-> g]

\* Sizes the layout tool gives the shapes.
ShapeWidth(tag, g) == IF tag = "task" THEN g.task_width ELSE 36
ShapeHeight(tag) == IF tag = "task" THEN 80 ELSE 36

\* A layout: the flow nodes left to right from an origin, one column each; with
\* `zig` every second node is one row lower.  Every sequenceFlow gets a two-point edge.
FlowNodes(doc) == SelectSeq(doc.children, LAMBDA c : c.tag \in FlowNodeTags)
SeqFlows(doc) == SelectSeq(doc.children, LAMBDA c : c.tag = "sequenceFlow")

LaidOutShape(nodes, j, g) ==
    Shape(nodes[j].id, FALSE,
          g.x + 150 * (j - 1),
          g.y + (IF g.zig /\ j % 2 = 0 THEN 140 ELSE 0),
          ShapeWidth(nodes[j].tag, g), ShapeHeight(nodes[j].tag))

\* The nodes the geometry gives a shape.
Shown(shapes, g) ==
    IF g.hidden = "all" THEN <<>>
    ELSE IF g.hidden = "first" THEN Tail(shapes)
    ELSE shapes

LaidOutEdge(shapes, flow) ==
    LET s == FindShape(shapes, flow.sourceRef)
        t == FindShape(shapes, flow.targetRef)
    IN  Edge(flow.id, << [x |-> s.x + s.width, y |-> s.y], [x |-> t.x, y |-> t.y] >>)

LaidOut(doc, answer) ==
    LET nodes == FlowNodes(doc)
        flows == SeqFlows(doc)
        shapes == Shown([j \in DOMAIN nodes |-> LaidOutShape(nodes, j, answer.g)], answer.g)
        joined == SelectSeq(flows, LAMBDA f : /\ FindShape(shapes, f.sourceRef) /= NoShape
                                             /\ FindShape(shapes, f.targetRef) /= NoShape)
    IN  IF ~answer.plane THEN doc
        ELSE [doc EXCEPT !.hasPlane = TRUE,
                         !.plane = shapes \o [j \in DOMAIN joined |->
                                                 LaidOutEdge(shapes, joined[j])]]

-----------------------------------------------------------------------------
(* merger.py: add_lane_shape *)

LanePadding == 60        \* merger.py 139-140
LanePaddingBoth == 120   \* merger.py 141-142

SetMin(S) == CHOOSE m \in S : \A n \in S : m <= n
SetMax(S) == CHOOSE m \in S : \A n \in S : m >= n

\* Replace the first BPMNShape of the element by `shape`.
RECURSIVE ReplaceShape(_, _, _)
ReplaceShape(plane, element_id, shape) ==
    IF plane = <<>> THEN <<>>
    ELSE IF Head(plane).tag = "BPMNShape" /\ Head(plane).bpmnElement = element_id
         THEN << shape >> \o Tail(plane)
         ELSE << Head(plane) >> \o ReplaceShape(Tail(plane), element_id, shape)

\* Lines 110-128: the shapes of the lane's flowNodeRefs that the plane holds.
LocatedShapes(plane, refs) ==
    { FindShape(plane, refs[j]) : j \in DOMAIN refs } \ { NoShape }

\* The bounding box without the padding.
LaneBoxTight(located) ==
    [x |-> SetMin({ sh.x : sh \in located }), y |-> SetMin({ sh.y : sh \in located }),
     width |-> SetMax({ sh.x + sh.width : sh \in located }) - SetMin({ sh.x : sh \in located }),
     height |-> SetMax({ sh.y + sh.height : sh \in located })
                - SetMin({ sh.y : sh \in located })]

\* Lines 135-142.
LaneBox(located) ==
    LET min_x == SetMin({ sh.x : sh \in located })
        min_y == SetMin({ sh.y : sh \in located })
        max_x == SetMax({ sh.x + sh.width : sh \in located })
        max_y == SetMax({ sh.y + sh.height : sh \in located })
    IN  [x |-> min_x - LanePadding, y |-> min_y - LanePadding,
         width |-> (max_x - min_x) + LanePaddingBoth,
         height |-> (max_y - min_y) + LanePaddingBoth]

\* Lines 144-145: the shape the lane has already.
ExistingShapeNone(plane, lane_id) == NoShape
ExistingShape(plane, lane_id) == FindShape(plane, lane_id)

\* Lines 95-170, one lane: no flowNodeRef or no located shape leaves the plane as it
\* is; an existing lane shape is updated in place, a new one is inserted first.
ShapeOneLane(plane, lane) ==
    LET located == LocatedShapes(plane, lane.refs)
    IN  IF lane.refs = <<>> \/ located = {} THEN plane
        ELSE LET box == LaneBox(located)
                 existing == ExistingShape(plane, lane.id)
             IN  IF existing /= NoShape
                 THEN ReplaceShape(plane, lane.id,
                          [existing EXCEPT !.x = box.x, !.y = box.y,
                                           !.width = box.width, !.height = box.height])
                 ELSE << Shape(lane.id, TRUE, box.x, box.y, box.width, box.height) >>
                      \o plane

RECURSIVE ShapeLanes(_, _)
ShapeLanes(plane, lanes) ==
    IF lanes = <<>> THEN plane
    ELSE ShapeLanes(ShapeOneLane(plane, Head(lanes)), Tail(lanes))

\* Lines 93, 172, 288, 425, 498: ET.tostring(root, encoding='unicode',
\* xml_declaration=True) writes the declaration and a well-formed text.
Tostring(doc) == [doc EXCEPT !.decl = TRUE, !.balanced = TRUE]

\* Lines 80-172.
AddLaneShape(doc) ==
    IF ~doc.hasPlane THEN Tostring(doc)
    ELSE Tostring([doc EXCEPT !.plane = ShapeLanes(doc.plane, doc.lanes)])

-----------------------------------------------------------------------------
(* merger.py: merge_xml_lanes and its helpers *)

\* Lines 545-574: the process children and the shapes and edges whose id passes
\* _is_mock_element are removed; the laneSet and its flowNodeRefs are not visited.
RemoveMockElements(doc) ==
    [doc EXCEPT
        !.children = SelectSeq(doc.children, LAMBDA c : ~IsMockElement(c.id)),
        !.plane = IF doc.hasPlane
                  THEN SelectSeq(doc.plane, LAMBDA d : ~IsMockElement(d.bpmnElement))
                  ELSE doc.plane]

\* Lines 500-516.
GetLaneBounds(plane, lane_id) == FindShape(plane, lane_id)

\* Lines 518-543 as a bug would have them: the y gap is left out.
AdjustDiagramCoordinatesAcross(plane, x_gap, y_gap) ==
    [i \in DOMAIN plane |->
        IF plane[i].tag = "BPMNShape"
        THEN [plane[i] EXCEPT !.x = @ - x_gap]
        ELSE [plane[i] EXCEPT !.waypoints =
                 [k \in DOMAIN @ |-> [x |-> @[k].x - x_gap, y |-> @[k].y]]]]

\* Lines 518-543.
AdjustDiagramCoordinates(plane, x_gap, y_gap) ==
    [i \in DOMAIN plane |->
        IF plane[i].tag = "BPMNShape"
        THEN [plane[i] EXCEPT !.x = @ - x_gap, !.y = @ - y_gap]
        ELSE [plane[i] EXCEPT !.waypoints =
                 [k \in DOMAIN @ |-> [x |-> @[k].x - x_gap, y |-> @[k].y - y_gap]]]]

\* Lines 282-286 as a bug would have them: the lanes keep the widths they have.
EqualizeWidthsNone(plane, max_width) == plane

\* Lines 282-286.
EqualizeWidths(plane, max_width) ==
    [i \in DOMAIN plane |->
        IF plane[i].tag = "BPMNShape" /\ plane[i].isHorizontal
        THEN [plane[i] EXCEPT !.width = max_width]
        ELSE plane[i]]

\* Line 242: the top of the lane that is folded in.
NewLaneBYSame(current_y_offset, current_height) == current_y_offset
NewLaneBY(current_y_offset, current_height) == current_y_offset + current_height

\* Line 246: the running maximum of the lane widths.
MaxWidthLatest(max_width, width) == width
MaxWidth(max_width, width) == Max(max_width, width)

\* Lines 236-238 as a bug would have them: the skipped fragment still takes its row.
SkipFragmentAdvance(st) ==
    [st EXCEPT !.current_y_offset = st.current_y_offset + st.current_height]

\* Lines 236-238: `continue`, the loop state is what it was.
SkipFragment(st) == st

\* Lines 211-280, one fragment folded into the base.  st is the loop state:
\* base (the document), base_x, current_y_offset, current_height, max_width and
\* merged, the indices of the fragments folded in so far.
MergeOne(st, fragment, index) ==
    IF ~fragment.process \/ ~fragment.hasPlane THEN st
    ELSE LET frag == RemoveMockElements(fragment)
         IN  IF ~frag.laneSet THEN st
             ELSE IF frag.lanes = <<>> THEN [st EXCEPT !.exc = "AttributeError"]
             ELSE LET merge_lane == frag.lanes[1]
                      bounds == GetLaneBounds(frag.plane, merge_lane.id)
                  IN  IF bounds = NoShape THEN SkipFragment(st)
                      ELSE LET x_gap == bounds.x - st.base_x
                               new_lane_B_y == NewLaneBY(st.current_y_offset, st.current_height)
                               y_gap == bounds.y - new_lane_B_y
                               max_width == MaxWidth(st.max_width, bounds.width)
                               moved == AdjustDiagramCoordinates(frag.plane, x_gap, y_gap)
                               lane_shape == FindShape(moved, merge_lane.id)
                               placed == ReplaceShape(moved, merge_lane.id,
                                            [lane_shape EXCEPT !.x = st.base_x,
                                                               !.y = new_lane_B_y,
                                                               !.width = max_width])
                           IN  [st EXCEPT
                                  !.base = [@ EXCEPT
                                      !.lanes = Append(@, merge_lane),
                                      !.children = @ \o frag.children,
                                      !.plane = @ \o placed],
                                  !.current_y_offset = new_lane_B_y,
                                  !.current_height = bounds.height,
                                  !.max_width = max_width,
                                  !.merged = Append(@, index)]

RECURSIVE MergeRest(_, _, _)
MergeRest(st, lanes_xml, index) ==
    IF lanes_xml = <<>> \/ st.exc /= None THEN st
    ELSE MergeRest(MergeOne(st, Head(lanes_xml), index), Tail(lanes_xml), index + 1)

MergeFailure(exc) == [exc |-> exc, doc |-> EmptyDoc, merged |-> <<>>]

\* Lines 174-289.
MergeXmlLanes(lanes_xml) ==
    IF lanes_xml = <<>> THEN MergeFailure("ValueError")
    ELSE IF ~lanes_xml[1].process \/ ~lanes_xml[1].hasPlane THEN MergeFailure("ValueError")
    ELSE LET base == RemoveMockElements(lanes_xml[1])
         IN  IF ~base.laneSet THEN MergeFailure("ValueError")
             ELSE IF base.lanes = <<>> THEN MergeFailure("AttributeError")
             ELSE LET base_lane_bounds == GetLaneBounds(base.plane, base.lanes[1].id)
                  IN  IF base_lane_bounds = NoShape THEN MergeFailure("ValueError")
                      ELSE LET st == MergeRest(
                                   [exc |-> None, base |-> base,
                                    base_x |-> base_lane_bounds.x,
                                    current_y_offset |-> base_lane_bounds.y,
                                    current_height |-> base_lane_bounds.height,
                                    max_width |-> base_lane_bounds.width,
                                    merged |-> << 1 >>],
                                   Tail(lanes_xml), 2)
                           IN  IF st.exc /= None THEN MergeFailure(st.exc)
                               ELSE [exc |-> None,
                                     doc |-> Tostring([st.base EXCEPT
                                                !.plane = EqualizeWidths(@, st.max_width)]),
                                     merged |-> st.merged]

-----------------------------------------------------------------------------
(* merger.py: add_sequence_flows_from_json and add_pool_to_bpmn *)

\* round(n / 2) of Python 3 for an integer n: halves go to the even neighbour.
RoundHalfUp(n) == (n + 1) \div 2
RoundHalf(n) ==
    IF n % 2 = 0 THEN n \div 2
    ELSE LET f == (n - 1) \div 2 IN IF f % 2 = 0 THEN f ELSE f + 1

\* Lines 384-396: the two waypoints of a flow between two shapes.
Waypoints(source, target) ==
    LET waypoint_1_x == RoundHalf(2 * source.x + source.width)
        waypoint_2_x == RoundHalf(2 * target.x + target.width)
    IN  IF source.y < target.y
        THEN << [x |-> waypoint_1_x, y |-> source.y + source.height],
                [x |-> waypoint_2_x, y |-> target.y] >>
        ELSE << [x |-> waypoint_1_x, y |-> source.y],
                [x |-> waypoint_2_x, y |-> target.y + target.height] >>

\* Lines 341-345: a sequenceFlow with that id is already in the process.
FlowExistsNever(doc, flow_id) == FALSE
FlowExists(doc, flow_id) ==
    \E i \in DOMAIN doc.children :
        doc.children[i].tag = "sequenceFlow" /\ doc.children[i].id = flow_id

\* Lines 332-423, one flow of the list.
AddOneFlow(doc, flow_data) ==
    IF flow_data.id = "" \/ flow_data.sourceRef = "" \/ flow_data.targetRef = "" THEN doc
    ELSE IF FlowExists(doc, flow_data.id) THEN doc
    ELSE LET source_shape == FindShape(doc.plane, flow_data.sourceRef)
             target_shape == FindShape(doc.plane, flow_data.targetRef)
         IN  IF source_shape = NoShape \/ target_shape = NoShape THEN doc
             ELSE [doc EXCEPT
                     !.children = Append(@, SeqFlow(flow_data)),
                     !.plane = Append(@, Edge(flow_data.id,
                                              Waypoints(source_shape, target_shape)))]

RECURSIVE AddFlows(_, _)
AddFlows(doc, sequence_flows) ==
    IF sequence_flows = <<>> THEN doc
    ELSE AddFlows(AddOneFlow(doc, Head(sequence_flows)), Tail(sequence_flows))

\* Lines 291-425.
AddSequenceFlowsFromJson(doc, sequence_flows) ==
    IF ~doc.process \/ ~doc.hasPlane THEN [exc |-> "ValueError", doc |-> EmptyDoc]
    ELSE [exc |-> None, doc |-> Tostring(AddFlows(doc, sequence_flows))]

ParticipantId == "process_participant_1"
PoolMargin == 30     \* merger.py 629 and 631

\* Lines 582-655: the participant shape from the lanes that have a shape.
SumHeightsFirst(bounds) == IF bounds = <<>> THEN 0 ELSE Head(bounds).height
RECURSIVE SumHeights(_)
SumHeights(bounds) ==
    IF bounds = <<>> THEN 0 ELSE Head(bounds).height + SumHeights(Tail(bounds))

\* add_collaboration.py 118-125: the height add_collaboration_to_bpmn gives the
\* participant, max(y + height) - min(y) over the lanes.
SpanHeight(lanes) ==
    SetMax({ lanes[i].y + lanes[i].height : i \in DOMAIN lanes })
        - SetMin({ lanes[i].y : i \in DOMAIN lanes })

AddParticipantShape(doc) ==
    LET all == [i \in DOMAIN doc.lanes |-> FindShape(doc.plane, doc.lanes[i].id)]
        lane_bounds == SelectSeq(all, LAMBDA b : b /= NoShape)
    IN  IF ~doc.laneSet \/ doc.lanes = <<>> \/ lane_bounds = <<>> THEN doc
        ELSE [doc EXCEPT !.plane =
                 << Shape(ParticipantId, TRUE,
                          SetMin({ lane_bounds[i].x : i \in DOMAIN lane_bounds }) - PoolMargin,
                          SetMin({ lane_bounds[i].y : i \in DOMAIN lane_bounds }),
                          lane_bounds[1].width + PoolMargin,
                          SumHeights(lane_bounds)) >> \o @]

\* Lines 427-498.
AddPoolToBpmn(doc, main_actor) ==
    IF ~doc.process THEN [exc |-> "ValueError", doc |-> EmptyDoc]
    ELSE [exc |-> None,
          doc |-> Tostring(IF doc.hasPlane
                           THEN AddParticipantShape([doc EXCEPT !.participant = main_actor])
                           ELSE [doc EXCEPT !.participant = main_actor])]

-----------------------------------------------------------------------------
(* file_handler.py: validate_description *)

MinLength == 10       \* file_handler.py 96
MaxLength == 10000    \* file_handler.py 102

\* A text, as far as the check looks at it: the number of whitespace characters it
\* begins with, the length of what they surround, and the number it ends with.  The
\* core neither begins nor ends with whitespace; a blank text has an empty core.
Text(left, core, right) == [left |-> left, core |-> core, right |-> right]
NoText == Text(0, 0, 0)
Chars(text) == text.left + text.core + text.right
Strip(text) == IF text.core = 0 THEN NoText ELSE Text(0, text.core, 0)

\* file_handler.py 7-9: the class the module defines for itself; exceptions.py 13
\* defines another class of the same name, a BPMNGenerationError.
FileHandlerError == "file_handler.FileHandlerError"

\* file_handler.py 93: not description or not description.strip()
IsEmpty(text) == Chars(text) = 0 \/ Chars(Strip(text)) = 0

\* file_handler.py 75-108.
ValidateDescription(text) ==
    IF IsEmpty(text)
    THEN [exc |-> Exc(FileHandlerError, "Process description is empty", None), value |-> NoText]
    ELSE IF Chars(text) < MinLength
    THEN [exc |-> Exc(FileHandlerError, "Process description too short", None), value |-> NoText]
    ELSE IF Chars(text) > MaxLength
    THEN [exc |-> Exc(FileHandlerError, "Process description too long", None), value |-> NoText]
    ELSE [exc |-> NoError, value |-> Strip(text)]

-----------------------------------------------------------------------------
(* Bounded inputs *)

MaxLanesP == 2      \* lanes of a partition input
MaxFlowsP == 2      \* global sequence flows of a partition input
MaxLanesN == 2      \* lanes of a normalisation input
MaxElemsN == 2      \* elements of a lane of a normalisation input
MaxLanesM == 2      \* lanes of a merge input
MaxLanesS == 3      \* lanes of a stacking input
MaxFlowsF == 2      \* global sequence flows of a flows input
MaxPadding == 2     \* whitespace characters at either end of a description

\* models.py Pool.name
PoolNames == << "Pool A", "Pool B", "Pool C" >>

LaneIds == << "lane_1", "lane_2", "lane_3", "lane_4" >>
ElemIds == << << "a1", "a2", "a3", "a4" >>, << "b1", "b2", "b3", "b4" >>,
              << "c1", "c2", "c3", "c4" >>, << "d1", "d2", "d3", "d4" >> >>
FlowIds == << "flow_1", "flow_2", "flow_3", "flow_4" >>
Ghost == "ghost"    \* an endpoint that is no element of any lane

\* models.py Element.type: the two kinds the normaliser tests for, and task for the
\* five kinds it treats alike.
Kinds == { "startEvent", "endEvent", "task" }

Task(id) == [id |-> id, type |-> "task"]

\* Partition inputs: n lanes of two tasks each; the first lane's id may be the empty
\* string (models.py Lane.id is any str); flows run between the first lane's elements,
\* the first element of the other lanes and an unknown endpoint.
PLane(i, id) == [id |-> id, elements |-> << Task(ElemIds[i][1]), Task(ElemIds[i][2]) >>]
PLanes(n, firstId) == [i \in 1..n |-> PLane(i, IF i = 1 THEN firstId ELSE LaneIds[i])]
PEndpoints(n) == { ElemIds[1][1], ElemIds[1][2], Ghost } \cup { ElemIds[i][1] : i \in 2..n }
PFlows(n) ==
    UNION { { [i \in 1..k |-> [id |-> FlowIds[i], sourceRef |-> st[i][1], targetRef |-> st[i][2]]]
              : st \in [1..k -> PEndpoints(n) \X PEndpoints(n)] } : k \in 0..MaxFlowsP }
PartitionInputs ==
    UNION { { [name |-> PoolNames[1], lanes |-> PLanes(n, firstId), sequenceFlows |-> fl]
              : firstId \in { "", LaneIds[1] }, fl \in PFlows(n) } : n \in 1..MaxLanesP }

\* Normalisation inputs: n lanes, each any list of up to MaxElemsN elements of any
\* kinds (the empty list and several start or end events included), with or without
\* a chain of flows between consecutive elements of a lane.
NElements(i) ==
    UNION { { [j \in 1..k |-> [id |-> ElemIds[i][j], type |-> ty[j]]] : ty \in [1..k -> Kinds] }
            : k \in 0..MaxElemsN }
NLaneSets(n) == { [i \in 1..n |-> [id |-> LaneIds[i], elements |-> els[i]]]
                  : els \in { f \in [1..n -> UNION { NElements(i) : i \in 1..n }] :
                                \A i \in 1..n : f[i] \in NElements(i) } }
RECURSIVE ChainFlows(_, _)
ChainFlows(lanes, k) ==
    IF lanes = <<>> THEN <<>>
    ELSE LET els == Head(lanes).elements
         IN  [j \in 1..(IF Len(els) = 0 THEN 0 ELSE Len(els) - 1) |->
                 [id |-> "flow_" \o els[j].id,
                  sourceRef |-> els[j].id, targetRef |-> els[j + 1].id]]
             \o ChainFlows(Tail(lanes), k + 1)
NormalizeInputs ==
    UNION { { [name |-> PoolNames[1], lanes |-> lanes,
                sequenceFlows |-> IF chained THEN ChainFlows(lanes, 1) ELSE <<>>]
              : lanes \in NLaneSets(n), chained \in BOOLEAN } : n \in 1..MaxLanesN }

\* Merge inputs: n lanes, each one of the lane patterns below: a lone task, a complete
\* lane, a lane without an end event, a lane without a start event, and a lane whose
\* first task has an id that holds the text mock_start or mock_end in some case.
\* Flows: none, a chain inside every lane, or the chains and one flow from the first
\* element of lane 1 to the first element of lane 2.
OddIds == << "Mock_End_review", "remock_start", "MOCK_ENDPOINT", "unmock_starter" >>
El(i, j, type) == [id |-> ElemIds[i][j], type |-> type]
LanePatterns(i) ==
    { << El(i, 1, "task") >>,
      << El(i, 1, "startEvent"), El(i, 2, "task"), El(i, 3, "endEvent") >>,
      << El(i, 1, "startEvent"), El(i, 2, "task") >>,
      << El(i, 1, "task"), El(i, 2, "endEvent") >>,
      << Task(OddIds[i]), El(i, 2, "task") >> }
MLaneSets(n) == { [i \in 1..n |-> [id |-> LaneIds[i], elements |-> els[i]]]
                  : els \in { f \in [1..n -> UNION { LanePatterns(i) : i \in 1..n }] :
                                \A i \in 1..n : f[i] \in LanePatterns(i) } }
CrossFlow(lanes) ==
    IF Len(lanes) < 2 THEN <<>>
    ELSE << [id |-> FlowIds[1], sourceRef |-> lanes[1].elements[1].id,
             targetRef |-> lanes[2].elements[1].id] >>
FlowChoices(lanes) ==
    { <<>>, ChainFlows(lanes, 1), ChainFlows(lanes, 1) \o CrossFlow(lanes) }
MergeInputs ==
    UNION { { [name |-> PoolNames[1], lanes |-> lanes, sequenceFlows |-> fl]
              : fl \in FlowChoices(lanes) } : lanes \in UNION { MLaneSets(n) : n \in 1..MaxLanesM } }

\* The geometries of the layout tool: an origin, whether every second node is put
\* one row lower, the width of a task, and the nodes that get no shape (none, the
\* first one, all).
Geometries ==
    { [x |-> 150, y |-> 80, zig |-> FALSE, task_width |-> 101,
        hidden |-> "none"],
      [x |-> 12, y |-> 0 - 20, zig |-> TRUE, task_width |-> 100,
        hidden |-> "none"] }
PlainGeometry ==
    [x |-> 150, y |-> 80, zig |-> FALSE, task_width |-> 100, hidden |-> "none"]

\* The answers of the layout tool in the runs that look at the merged geometry: an
\* output of the input's size, with or without a plane, in every geometry, and a
\* failure.
MergeLayoutWorld ==
    { LayoutAnswer("zero", "longer", plane, g) : plane \in BOOLEAN, g \in Geometries }
    \cup { LayoutAnswer("nonzero", "empty", FALSE, PlainGeometry) }

\* The answers of the layout tool in the runs of the whole pipeline: every exit and
\* every size, in one geometry.
PipelineLayoutWorld ==
    { LayoutAnswer("zero", size, TRUE, PlainGeometry) : size \in OutSizes }
    \cup { LayoutAnswer(exit, "empty", FALSE, PlainGeometry) : exit \in { "nonzero", "timeout" } }

\* Stacking inputs: one to MaxLanesS lanes, each short (one task) or long (a start
\* event, two tasks and an end event), without flows; the layout tool answers in
\* every geometry, with or without a plane.
SLanePatterns(i) ==
    { << El(i, 1, "task") >>,
      << El(i, 1, "startEvent"), El(i, 2, "task"), El(i, 3, "task"), El(i, 4, "endEvent") >> }
SLaneSets(n) == { [i \in 1..n |-> [id |-> LaneIds[i], elements |-> els[i]]]
                  : els \in { f \in [1..n -> UNION { SLanePatterns(i) : i \in 1..n }] :
                                \A i \in 1..n : f[i] \in SLanePatterns(i) } }
StackInputs ==
    { [name |-> PoolNames[1], lanes |-> lanes, sequenceFlows |-> <<>>]
      : lanes \in UNION { SLaneSets(n) : n \in 1..MaxLanesS } }
StackLayoutWorld ==
    { LayoutAnswer("zero", "longer", plane, g) : plane \in BOOLEAN, g \in Geometries }

\* Flows inputs: two lanes (tasks a1, a2 and task b1), or one lane with the empty id
\* holding a1 and a2, whose flows the partition files as cross-lane flows; up to
\* MaxFlowsF flows, downward and upward, with a repeated id, an unknown endpoint, an
\* empty id, and an id that a flow inside the first lane has as well.
Flow(id, sourceRef, targetRef) == [id |-> id, sourceRef |-> sourceRef, targetRef |-> targetRef]
FLanesTwo ==
    << [id |-> LaneIds[1], elements |-> << El(1, 1, "task"), El(1, 2, "task") >>],
       [id |-> LaneIds[2], elements |-> << El(2, 1, "task") >>] >>
FLanesOne == << [id |-> "", elements |-> << El(1, 1, "task"), El(1, 2, "task") >>] >>
FCandidates(lanes) ==
    IF Len(lanes) = 2
    THEN { Flow(FlowIds[1], "a1", "b1"), Flow(FlowIds[1], "b1", "a1"),
           Flow(FlowIds[2], "b1", "a2"), Flow(FlowIds[3], "a1", Ghost),
           Flow("", "a2", "b1"),
           Flow(FlowIds[4], "a1", "a2"), Flow(FlowIds[4], "a2", "b1") }
    ELSE { Flow(FlowIds[1], "a1", "a2"), Flow(FlowIds[2], "a2", "a1"),
           Flow(FlowIds[2], "a1", "a1") }
FSeqs(S) == UNION { [1..k -> S] : k \in 0..MaxFlowsF }
FlowInputs ==
    UNION { { [name |-> PoolNames[1], lanes |-> lanes, sequenceFlows |-> fl]
              : fl \in FSeqs(FCandidates(lanes)) } : lanes \in { FLanesTwo, FLanesOne } }
FlowLayoutWorld == { LayoutAnswer("zero", "longer", TRUE, g) : g \in Geometries }

\* Layouts that leave shapes out, beside the full ones.
ShapeGeometries ==
    Geometries \cup
    { [x |-> 150, y |-> 80, zig |-> TRUE, task_width |-> 100, hidden |-> h]
      : h \in { "first", "all" } }
ShapeLayoutWorld == { LayoutAnswer("zero", "longer", TRUE, g) : g \in ShapeGeometries }

\* Description inputs: the empty text, blank texts, and texts whose core is short,
\* at the two limits, next to them and beyond, with up to MaxPadding whitespace
\* characters before and after.
CoreLengths ==
    { 0, 1, 5, MinLength - 1, MinLength, MinLength + 1, 57, MaxLength - MaxPadding,
      MaxLength - 1, MaxLength, MaxLength + 1 }
DescriptionInputs ==
    { Text(left, core, right) : left \in 0..MaxPadding, core \in CoreLengths,
                                right \in 0..MaxPadding }

\* Pipeline inputs: the process descriptions and the JSON bodies the generative
\* collaborator answers with: two lanes and a flow across them, one lane of one task,
\* and a pool without lanes.
Descriptions == { "description 1", "description 2" }
JsonBodies ==
    { [name |-> PoolNames[1],
       lanes |-> << [id |-> LaneIds[1], elements |-> << El(1, 1, "startEvent"), El(1, 2, "task") >>],
                    [id |-> LaneIds[2], elements |-> << El(2, 1, "task"), El(2, 2, "endEvent") >>] >>,
       sequenceFlows |-> << [id |-> FlowIds[1], sourceRef |-> "a1", targetRef |-> "a2"],
                            [id |-> FlowIds[2], sourceRef |-> "a2", targetRef |-> "b1"],
                            [id |-> FlowIds[3], sourceRef |-> "b1", targetRef |-> "b2"] >>],
      [name |-> PoolNames[2],
       lanes |-> << [id |-> LaneIds[1], elements |-> << El(1, 1, "task") >>] >>,
       sequenceFlows |-> <<>>],
      [name |-> PoolNames[3], lanes |-> <<>>, sequenceFlows |-> <<>>] }
NoJson == [name |-> None, lanes |-> <<>>, sequenceFlows |-> <<>>]

-----------------------------------------------------------------------------
(* generate_bpmn and merge_lanes, step by step *)

\* exceptions.py: BPMNGenerationError and its subclasses.
BPMNGenerationErrors ==
    { "BPMNGenerationError", "BPMNJsonError", "BPMNValidationError", "FileHandlerError",
      "LLMServiceError", "DiagramError", "BPMNLayoutError" }

\* generator.py 86-96: what generate_bpmn raises for an exception of its body.
Reraise(exc) ==
    IF exc.kind \in { "ValueError", "TypeError" }
    THEN Exc("BPMNGenerationError", "Failed to parse LLM response as JSON", exc.kind)
    ELSE IF exc.kind = "KeyError"
    THEN Exc("BPMNGenerationError", "LLM response missing required field", exc.kind)
    ELSE IF exc.kind \in BPMNGenerationErrors THEN exc
    ELSE Exc("BPMNGenerationError", "Unexpected error", exc.kind)

Fail(exc) ==
    /\ pc' = "Failed"
    /\ error' = Reraise(exc)
    /\ stage_error' = exc

envVars ==
    << description, validated, process_description, clean_and_validate_defined,
       layout_world >>
jsonVars == << attempt, last_error, responses >>
laneVars == << same_flow, different_flow, all_lanes, again_lanes >>
renderVars == << render_calls, render_answers, xml_lanes_list >>
layoutVars == << layout_calls, layout_answers, set_lanes >>
mergeVars ==
    << layoutVars, merged_from, merged_xml, complete_xml, again_xml, again_set_lanes, result >>

(* Step 1: _generate_process_json *)

MaxAttempts == 3     \* generator.py 38

\* What the generative collaborator may answer: a service failure, a text that is no
\* JSON, a JSON text that is no object, a JSON object that violates the schema, and a
\* schema-valid object.
Responses ==
    { [kind |-> k, body |-> NoJson] : k \in { "service_error", "malformed", "not_object" } }
    \cup { [kind |-> k, body |-> b] : k \in { "schema_invalid", "valid" }, b \in JsonBodies }

\* generator.py 129-134 and 166-170: the exception an answer ends the attempt with.
RaisedBy(response) ==
    CASE response.kind = "service_error" -> "LLMServiceError"
      [] response.kind = "malformed" -> "JSONDecodeError"
      [] response.kind = "not_object" -> "TypeError"
      [] response.kind = "schema_invalid" -> "BPMNJsonError"
      [] OTHER -> None

\* generator.py 139: the exceptions the attempt loop catches.
Retried(kind) == kind \in { "JSONDecodeError", "BPMNJsonError" }

NoLastError == [kind |-> None, attempt |-> 0]
\* A loop that would keep the error of the first failed attempt.
LastErrorFirst(previous, e) == IF previous = NoLastError THEN e ELSE previous
\* generator.py 140: last_error = e
LastError(previous, e) == e

\* A loop that would return what the first attempt was answered.
ValidatedJsonFirst(rs, k) == rs[1].body
\* generator.py 134-137: the object of this attempt is what is returned.
ValidatedJson(rs, k) == rs[k].body

\* generator.py 148-151
ExhaustedError(last) ==
    [Exc("BPMNJsonError", "Failed to generate valid BPMN JSON after 3 attempts", last.kind)
        EXCEPT !.cause_attempt = last.attempt]

\* One iteration of the loop of generator.py 127-144, and lines 148-151 after the last.
GenerateAttempt ==
    /\ pc = "Init"
    /\ attempt < MaxAttempts
    /\ \E response \in Responses :
         LET k == attempt + 1
             rs == Append(responses, [args |-> process_description,
                                      kind |-> response.kind, body |-> response.body])
             raised == RaisedBy(response)
             last == LastError(last_error, [kind |-> raised, attempt |-> k])
         IN  /\ attempt' = k
             /\ responses' = rs
             /\ IF raised = None
                THEN /\ pc' = "JsonGenerated"
                     /\ json_bpmn' = ValidatedJson(rs, k)
                     /\ input_lanes' = ValidatedJson(rs, k).lanes
                     /\ UNCHANGED << last_error, error, stage_error >>
                ELSE IF Retried(raised)
                THEN /\ last_error' = last
                     /\ IF k < MaxAttempts
                        THEN pc' = "Init" /\ UNCHANGED << error, stage_error >>
                        ELSE Fail(ExhaustedError(last))
                     /\ UNCHANGED << json_bpmn, input_lanes >>
                ELSE /\ Fail(Exc(raised, "raised by the attempt", None))
                     /\ UNCHANGED << last_error, json_bpmn, input_lanes >>
    /\ UNCHANGED << envVars, laneVars, renderVars, mergeVars >>

(* Steps 1b and 2 *)

\* generator.py 40-42: same_flow, different_flow = self._extract_all_sequence_flows(json_bpmn)
StepPartition ==
    /\ pc = "JsonGenerated"
    /\ LET r == ExtractAllSequenceFlows(json_bpmn)
       IN  IF r.exc /= None
           THEN /\ Fail(Exc(r.exc, "missing key", None))
                /\ UNCHANGED << same_flow, different_flow >>
           ELSE /\ pc' = "Partitioned"
                /\ same_flow' = r.same
                /\ different_flow' = r.different
                /\ UNCHANGED << error, stage_error >>
    /\ UNCHANGED << envVars, jsonVars, json_bpmn, input_lanes, all_lanes, again_lanes,
                    renderVars, mergeVars >>

\* generator.py 46: all_lanes = self._extract_all_lanes(json_bpmn, same_flow); with no
\* lane the loop of line 53 has no iteration.
StepNormalize ==
    /\ pc = "Partitioned"
    /\ LET r == ExtractAllLanes(json_bpmn, same_flow)
       IN  /\ json_bpmn' = [json_bpmn EXCEPT !.lanes = r.lanes]
           /\ IF r.exc /= None
              THEN /\ Fail(Exc(r.exc, "list index out of range", None))
                   /\ UNCHANGED all_lanes
              ELSE /\ pc' = IF r.lanes = <<>> THEN "LanesRendered" ELSE "LanesNormalized"
                   /\ all_lanes' = r.lanes
                   /\ UNCHANGED << error, stage_error >>
    /\ UNCHANGED << envVars, jsonVars, input_lanes, same_flow, different_flow, again_lanes,
                    renderVars, mergeVars >>

\* _extract_all_lanes applied once more to the lanes it has normalised, with the same
\* same_flow (generate_bpmn itself calls it once).
StepNormalizeAgain ==
    /\ pc = "LanesNormalized"
    /\ LET r == ExtractAllLanes(json_bpmn, same_flow)
       IN  /\ r.exc = None
           /\ again_lanes' = r.lanes
           /\ json_bpmn' = [json_bpmn EXCEPT !.lanes = r.lanes]
    /\ pc' = "NormalizedAgain"
    /\ UNCHANGED << envVars, jsonVars, input_lanes, same_flow, different_flow, all_lanes,
                    error, stage_error, renderVars, mergeVars >>

-----------------------------------------------------------------------------
(* Step 3: the rendering loop of generate_bpmn *)

\* What one call of the render collaborator may give: a service failure or an answer.
RenderOutcomes == { "service_error" } \cup RenderDefects

\* A loop that would render the lane it has just rendered once more.
LaneTurnAgain(done) == IF done = <<>> THEN 1 ELSE Len(done)
\* generator.py 53: the lane the loop is at.
LaneTurn(done) == Len(done) + 1

\* generator.py 71-75: the exception the iteration raises for this answer, or None.
\* Line 75 names XMLValidator.clean_and_validate; validator.py defines
\* validate_and_clean.  clean_and_validate_defined says which of the two readings the
\* run is under: the call reaches validate_and_clean, or the attribute lookup fails.
RenderRaises(lane, outcome) ==
    IF outcome = "service_error"
    THEN Exc("LLMServiceError", "Failed to run chain", None)
    ELSE LET lane_raw_xml == RemoveFileWrapper(Rendered(lane, outcome))
         IN  IF ~lane_raw_xml.found
             THEN Exc("BPMNValidationError", "Failed to generate BPMN file.", None)
             ELSE IF ~clean_and_validate_defined
             THEN Exc("AttributeError", "XMLValidator has no attribute clean_and_validate", None)
             ELSE IF ValidateAndClean(lane_raw_xml).msg /= None
             THEN Exc("BPMNValidationError", ValidateAndClean(lane_raw_xml).msg, None)
             ELSE NoError

\* What the call of generator.py 71-74 gave: no answer, a text without the <file>
\* wrapper, or a text with it.
Answered(lane, outcome) ==
    IF outcome = "service_error" THEN "no_answer"
    ELSE IF Rendered(lane, outcome).wrapped THEN "wrapper"
    ELSE "no_wrapper"

\* One iteration of the loop of generator.py 53-77.
RenderLane ==
    /\ pc = "LanesNormalized"
    /\ Len(xml_lanes_list) < Len(all_lanes)
    /\ LET i == LaneTurn(xml_lanes_list)
           lane == all_lanes[i]
       IN  /\ render_calls' = Append(render_calls, lane)
           /\ \E outcome \in RenderOutcomes :
                LET raised == RenderRaises(lane, outcome)
                IN  /\ render_answers' = Append(render_answers, Answered(lane, outcome))
                    /\ IF raised /= NoError
                        THEN /\ Fail(raised)
                             /\ UNCHANGED xml_lanes_list
                        ELSE /\ xml_lanes_list' =
                                   Append(xml_lanes_list,
                                          ValidateAndClean(RemoveFileWrapper(Rendered(lane, outcome))).xml)
                             /\ pc' = IF Len(xml_lanes_list) + 1 = Len(all_lanes)
                                      THEN "LanesRendered" ELSE "LanesNormalized"
                             /\ UNCHANGED << error, stage_error >>
    /\ UNCHANGED << envVars, jsonVars, json_bpmn, input_lanes, laneVars, mergeVars >>

(* Step 4: merge_lanes *)

\* layout.py 129: the answer is rejected when it is empty or shorter than 0.8 times
\* the input (lengths are whole numbers, so the test is made on tenths).
UndersizedNever(in_len, out_len) == FALSE
Undersized(in_len, out_len) == out_len = 0 \/ 10 * out_len < 8 * in_len

\* layout.py 110-154: every failure leaves apply_layout as a BPMNLayoutError; the one
\* raised inside the try block is caught by line 152 and raised again with a prefix.
LayoutRaises(in_len, answer) ==
    CASE answer.exit = "timeout" ->
            Exc("BPMNLayoutError", "Auto-layout timed out after 30 seconds", None)
      [] answer.exit = "nonzero" ->
            Exc("BPMNLayoutError", "Unexpected error during auto-layout: Auto-layout failed", None)
      [] Undersized(in_len, OutLength(in_len, answer.size)) ->
            Exc("BPMNLayoutError",
                "Unexpected error during auto-layout: Auto-layout produced invalid output", None)
      [] OTHER -> NoError

\* merger.py 58: set_lanes.append(shaped_lane)
CollectFirst(list, item) == << item >> \o list
Collect(list, item) == Append(list, item)

\* One iteration of the loop of merger.py 52-58.
LayoutLane ==
    /\ pc = "LanesRendered"
    /\ Len(set_lanes) < Len(xml_lanes_list)
    /\ LET lane == xml_lanes_list[Len(set_lanes) + 1]
           in_len == TextLength(lane)
       IN  /\ layout_calls' = Append(layout_calls, lane)
           /\ \E answer \in layout_world :
                /\ layout_answers' =
                       Append(layout_answers,
                              [exit |-> answer.exit, in_len |-> in_len,
                               out_len |-> OutLength(in_len, answer.size)])
                /\ IF LayoutRaises(in_len, answer) /= NoError
                   THEN /\ Fail(LayoutRaises(in_len, answer))
                        /\ UNCHANGED set_lanes
                   ELSE /\ set_lanes' = Collect(set_lanes, AddLaneShape(LaidOut(lane, answer)))
                        /\ UNCHANGED << pc, error, stage_error >>
    /\ UNCHANGED << envVars, jsonVars, json_bpmn, input_lanes, laneVars, renderVars,
                    merged_from, merged_xml, complete_xml, again_xml, again_set_lanes, result >>

\* add_lane_shape applied once more, to each of its outputs.
ShapeLanesAgain ==
    /\ pc = "LanesRendered"
    /\ set_lanes /= <<>>
    /\ Len(set_lanes) = Len(xml_lanes_list)
    /\ again_set_lanes = <<>>
    /\ again_set_lanes' = [i \in DOMAIN set_lanes |-> AddLaneShape(set_lanes[i])]
    /\ UNCHANGED << envVars, jsonVars, json_bpmn, input_lanes, laneVars, renderVars,
                    layoutVars, merged_from, merged_xml, complete_xml, again_xml, result,
                    pc, error, stage_error >>

\* merger.py 60: merged_xml = self.merge_xml_lanes(set_lanes)
StepMerge ==
    /\ pc = "LanesRendered"
    /\ Len(set_lanes) = Len(xml_lanes_list)
    /\ LET r == MergeXmlLanes(set_lanes)
       IN  IF r.exc /= None
           THEN /\ Fail(Exc(r.exc, "raised by merge_xml_lanes", None))
                /\ UNCHANGED << merged_from, merged_xml >>
           ELSE /\ pc' = "Merged"
                /\ merged_xml' = r.doc
                /\ merged_from' = r.merged
                /\ UNCHANGED << error, stage_error >>
    /\ UNCHANGED << envVars, jsonVars, json_bpmn, input_lanes, laneVars, renderVars,
                    layoutVars, complete_xml, again_xml, again_set_lanes, result >>

\* merger.py 62-63: merged_with_flows = self.add_sequence_flows_from_json(...)
StepAddFlows ==
    /\ pc = "Merged"
    /\ LET r == AddSequenceFlowsFromJson(merged_xml, different_flow)
       IN  IF r.exc /= None
           THEN /\ Fail(Exc(r.exc, "raised by add_sequence_flows_from_json", None))
                /\ UNCHANGED complete_xml
           ELSE /\ pc' = "FlowsAdded"
                /\ complete_xml' = r.doc
                /\ UNCHANGED << error, stage_error >>
    /\ UNCHANGED << envVars, jsonVars, json_bpmn, input_lanes, laneVars, renderVars,
                    layoutVars, merged_from, merged_xml, again_xml, again_set_lanes, result >>

\* add_sequence_flows_from_json applied once more, to its own output.
StepAddFlowsAgain ==
    /\ pc = "FlowsAdded"
    /\ again_xml = EmptyDoc
    /\ again_xml' = AddSequenceFlowsFromJson(complete_xml, different_flow).doc
    /\ UNCHANGED << envVars, jsonVars, json_bpmn, input_lanes, laneVars, renderVars,
                    layoutVars, merged_from, merged_xml, complete_xml, again_set_lanes, result,
                    pc, error, stage_error >>

\* generator.py 81 and merger.py 65-66: complete_xml = self.add_pool_to_bpmn(...)
StepAddPool ==
    /\ pc = "FlowsAdded"
    /\ LET r == AddPoolToBpmn(complete_xml, json_bpmn.name)
       IN  IF r.exc /= None
           THEN /\ Fail(Exc(r.exc, "raised by add_pool_to_bpmn", None))
                /\ UNCHANGED complete_xml
           ELSE /\ pc' = "PoolWrapped"
                /\ complete_xml' = r.doc
                /\ UNCHANGED << error, stage_error >>
    /\ UNCHANGED << envVars, jsonVars, json_bpmn, input_lanes, laneVars, renderVars,
                    layoutVars, merged_from, merged_xml, again_xml, again_set_lanes, result >>

\* merger.py 78 and generator.py 98: return complete_bpmn_xml, reasoning
StepReturn ==
    /\ pc = "PoolWrapped"
    /\ pc' = "Done"
    /\ result' = complete_xml
    /\ UNCHANGED << envVars, jsonVars, json_bpmn, input_lanes, laneVars, renderVars,
                    layoutVars, merged_from, merged_xml, complete_xml, again_xml, again_set_lanes,
                    error, stage_error >>

(* validate_description *)

\* file_handler.py 75-108, called by read_process_description (line 16) and by
\* read_file (line 71).
StepValidateDescription ==
    /\ pc = "Described"
    /\ LET r == ValidateDescription(description)
       IN  /\ pc' = IF r.exc = NoError THEN "Validated" ELSE "Rejected"
           /\ validated' = r.value
           /\ error' = r.exc
           /\ stage_error' = r.exc
    /\ UNCHANGED << description, process_description, clean_and_validate_defined,
                    layout_world, jsonVars, json_bpmn, input_lanes, laneVars, renderVars,
                    mergeVars >>

-----------------------------------------------------------------------------
(* Specifications *)

NoResult == EmptyDoc

\* A run whose first attempt returned the JSON `bpmn`, at the entry of line 40.
InitRun(inputs, world) ==
    /\ pc = "JsonGenerated"
    /\ description = NoText
    /\ validated = NoText
    /\ process_description \in { "description 1" }
    /\ clean_and_validate_defined = TRUE
    /\ layout_world = world
    /\ json_bpmn \in inputs
    /\ attempt = 1
    /\ last_error = NoLastError
    /\ responses = << [args |-> process_description, kind |-> "valid", body |-> json_bpmn] >>
    /\ input_lanes = json_bpmn.lanes
    /\ same_flow = EmptyDict
    /\ different_flow = <<>>
    /\ all_lanes = <<>>
    /\ again_lanes = <<>>
    /\ render_calls = <<>>
    /\ render_answers = <<>>
    /\ xml_lanes_list = <<>>
    /\ layout_calls = <<>>
    /\ layout_answers = <<>>
    /\ set_lanes = <<>>
    /\ merged_from = <<>>
    /\ merged_xml = EmptyDoc
    /\ complete_xml = EmptyDoc
    /\ again_xml = EmptyDoc
    /\ again_set_lanes = <<>>
    /\ result = NoResult
    /\ error = NoError
    /\ stage_error = NoError

InitPartition == InitRun(PartitionInputs, MergeLayoutWorld)
NextPartition == StepPartition
SpecPartition == InitPartition /\ [][NextPartition]_vars

InitNormalize == InitRun(NormalizeInputs, MergeLayoutWorld)
NextNormalize == StepPartition \/ StepNormalize \/ StepNormalizeAgain
SpecNormalize == InitNormalize /\ [][NextNormalize]_vars

\* The stages after the JSON step, over the merge inputs and every geometry.
InitMerge == InitRun(MergeInputs, MergeLayoutWorld)
NextMerge ==
    \/ StepPartition
    \/ StepNormalize
    \/ RenderLane
    \/ LayoutLane
    \/ StepMerge
    \/ StepAddFlows
    \/ StepAddPool
    \/ StepReturn
SpecMerge == InitMerge /\ [][NextMerge]_vars

\* The same stages over the stacking inputs.
InitStack == InitRun(StackInputs, StackLayoutWorld)
SpecStack == InitStack /\ [][NextMerge]_vars

\* The same stages over the flows inputs, with add_sequence_flows_from_json applied
\* a second time.
InitFlows == InitRun(FlowInputs, FlowLayoutWorld)
NextFlows == NextMerge \/ StepAddFlowsAgain
SpecFlows == InitFlows /\ [][NextFlows]_vars

\* The same stages over the stacking inputs with layouts that leave shapes out, and
\* add_lane_shape applied a second time.
InitShape == InitRun(StackInputs, ShapeLayoutWorld)
NextShape == NextMerge \/ ShapeLanesAgain
SpecShape == InitShape /\ [][NextShape]_vars

\* generate_bpmn from its entry, under both readings of generator.py 75.
InitPipeline ==
    /\ pc = "Init"
    /\ description = NoText
    /\ validated = NoText
    /\ process_description \in Descriptions
    /\ clean_and_validate_defined \in BOOLEAN
    /\ layout_world = PipelineLayoutWorld
    /\ json_bpmn = NoJson
    /\ attempt = 0
    /\ last_error = NoLastError
    /\ responses = <<>>
    /\ input_lanes = <<>>
    /\ same_flow = EmptyDict
    /\ different_flow = <<>>
    /\ all_lanes = <<>>
    /\ again_lanes = <<>>
    /\ render_calls = <<>>
    /\ render_answers = <<>>
    /\ xml_lanes_list = <<>>
    /\ layout_calls = <<>>
    /\ layout_answers = <<>>
    /\ set_lanes = <<>>
    /\ merged_from = <<>>
    /\ merged_xml = EmptyDoc
    /\ complete_xml = EmptyDoc
    /\ again_xml = EmptyDoc
    /\ again_set_lanes = <<>>
    /\ result = NoResult
    /\ error = NoError
    /\ stage_error = NoError
NextPipeline == GenerateAttempt \/ NextMerge
SpecPipeline == InitPipeline /\ [][NextPipeline]_vars

\* validate_description over the description inputs.
InitDescription ==
    /\ pc = "Described"
    /\ description \in DescriptionInputs
    /\ validated = NoText
    /\ process_description = "description 1"
    /\ clean_and_validate_defined = TRUE
    /\ layout_world = {}
    /\ json_bpmn = NoJson
    /\ attempt = 0
    /\ last_error = NoLastError
    /\ responses = <<>>
    /\ input_lanes = <<>>
    /\ same_flow = EmptyDict
    /\ different_flow = <<>>
    /\ all_lanes = <<>>
    /\ again_lanes = <<>>
    /\ render_calls = <<>>
    /\ render_answers = <<>>
    /\ xml_lanes_list = <<>>
    /\ layout_calls = <<>>
    /\ layout_answers = <<>>
    /\ set_lanes = <<>>
    /\ merged_from = <<>>
    /\ merged_xml = EmptyDoc
    /\ complete_xml = EmptyDoc
    /\ again_xml = EmptyDoc
    /\ again_set_lanes = <<>>
    /\ result = NoResult
    /\ error = NoError
    /\ stage_error = NoError
NextDescription == StepValidateDescription
SpecDescription == InitDescription /\ [][NextDescription]_vars

-----------------------------------------------------------------------------
(* Claims about the attempt loop and the single-shot stages *)

NoLaterStage ==
    /\ same_flow = EmptyDict
    /\ different_flow = <<>>
    /\ all_lanes = <<>>
    /\ render_calls = <<>>
    /\ layout_calls = <<>>
    /\ merged_xml = EmptyDoc
    /\ result = NoResult

FailedAttempt(response) == response.kind \in { "malformed", "schema_invalid" }
CauseOf(response) ==
    IF response.kind = "malformed" THEN "JSONDecodeError" ELSE "BPMNJsonError"

AfterPartition ==
    pc \in { "Partitioned", "LanesNormalized", "LanesRendered", "Merged", "FlowsAdded",
             "PoolWrapped", "Done" }
AfterNormalize == AfterPartition /\ pc /= "Partitioned"
AfterPool == pc \in { "PoolWrapped", "Done" }

\* C2: when attempts 1 and 2 fail and attempt 3 succeeds, the run goes on and the
\* partition, the normalisation, the rendering of every lane and the pool name use the
\* JSON of attempt 3 and nothing of the answers of attempts 1 and 2.
TheoremC2_ThirdAttemptOnly ==
    (attempt = 3 /\ responses[3].kind = "valid") =>
        LET accepted == responses[3].body
            part == ExtractAllSequenceFlows(accepted)
            lanes == ExtractAllLanes(accepted, part.same).lanes
        IN  /\ pc /= "Init"
            /\ input_lanes = accepted.lanes
            /\ json_bpmn.name = accepted.name
            /\ json_bpmn.sequenceFlows = accepted.sequenceFlows
            /\ AfterPartition => same_flow = part.same /\ different_flow = part.different
            /\ AfterNormalize => all_lanes = lanes
            /\ \A i \in DOMAIN render_calls : render_calls[i] = lanes[i]
            /\ AfterPool => complete_xml.participant = accepted.name
            /\ pc = "Done" => result.participant = accepted.name

\* A run that finished on the JSON of attempt 3 after two schema violations whose
\* bodies were other pools.
WitnessC2_ThirdAttemptOnly ==
    /\ pc = "Done"
    /\ attempt = 3
    /\ responses[1].kind = "schema_invalid"
    /\ responses[2].kind = "schema_invalid"
    /\ responses[1].body.name /= responses[3].body.name
    /\ responses[2].body.name /= responses[3].body.name
    /\ Len(render_calls) = 2

SingleShot ==
    /\ Len(render_calls) <= Len(all_lanes)
    /\ \A i \in DOMAIN render_calls : render_calls[i] = all_lanes[i]
    /\ Len(layout_calls) <= Len(xml_lanes_list)
    /\ \A i \in DOMAIN layout_calls : layout_calls[i] = xml_lanes_list[i]
    /\ pc \in { "Merged", "FlowsAdded", "PoolWrapped", "Done" } =>
           /\ Len(render_calls) = Len(all_lanes)
           /\ Len(layout_calls) = Len(all_lanes)
    \* a stage that did not complete left nothing to the stages after it
    /\ Len(xml_lanes_list) < Len(render_calls) => pc = "Failed"
    /\ Len(set_lanes) < Len(layout_calls) => pc = "Failed"
    /\ Len(xml_lanes_list) < Len(all_lanes) => layout_calls = <<>> /\ set_lanes = <<>>
    /\ Len(set_lanes) < Len(xml_lanes_list) => merged_xml = EmptyDoc
    /\ merged_xml = EmptyDoc => complete_xml = EmptyDoc
    /\ pc /= "Done" => result = NoResult

\* C3: after the JSON step every lane is rendered once and every fragment laid out
\* once, in order; the first failure of a stage ends the run in Failed, after which
\* nothing is called or changed and no later stage has run.
TheoremC3_SingleShot == [] SingleShot /\ [][pc /= "Failed"]_vars

\* The layout of the second fragment failed after the first was laid out.
WitnessC3_SingleShot ==
    /\ pc = "Failed"
    /\ Len(render_calls) = 2
    /\ Len(layout_calls) = 2
    /\ Len(set_lanes) = 1
    /\ error.kind = "BPMNLayoutError"

\* C4: generate_bpmn returns a document only if that document, merged, completed with
\* the cross-lane flows and wrapped in the pool, passes XMLValidator.validate.
ClaimC4_FinalValidated ==
    pc = "Done" => Validate(result) = None

-----------------------------------------------------------------------------
(* Claims about the partition and the normaliser *)

\* The lanes of the input that hold an element with this id.
HoldsElement(lane, id) == \E j \in DOMAIN lane.elements : lane.elements[j].id = id
FiledUnder(flow, lane_id) ==
    lane_id \in DOMAIN same_flow /\ flow \in Range(same_flow[lane_id])
TimesFiled(flow) ==
    Cardinality({ << k, i >> \in UNION { {k} \X DOMAIN same_flow[k] : k \in DOMAIN same_flow } :
                     same_flow[k][i] = flow })
    + Cardinality({ i \in DOMAIN different_flow : different_flow[i] = flow })

\* C5: after the partition every global sequence flow is in exactly one bucket: under
\* sameLaneFlows[L] if and only if its sourceRef and its targetRef both belong to
\* elements of the same lane L, and in crossLaneFlows otherwise (different lanes, or
\* an endpoint that belongs to no lane).
ClaimC5_Partition ==
    pc = "Partitioned" =>
        \A f \in DOMAIN json_bpmn.sequenceFlows :
            LET flow == json_bpmn.sequenceFlows[f]
                both(lane) == HoldsElement(lane, flow.sourceRef) /\ HoldsElement(lane, flow.targetRef)
            IN  /\ TimesFiled(flow) = 1
                /\ \A i \in DOMAIN input_lanes :
                       FiledUnder(flow, input_lanes[i].id) <=> both(input_lanes[i])
                /\ (flow \in Range(different_flow)) <=>
                       ~ \E i \in DOMAIN input_lanes : both(input_lanes[i])

NormalizerRan ==
    \/ pc = "LanesNormalized"
    \/ pc = "Failed" /\ error.cause = "IndexError"

\* C6: for every schema-valid lane (any list of elements, the empty list and lists
\* with several start or end events included) normalisation produces a lane with
\* exactly one element of kind startEvent and exactly one of kind endEvent.
ClaimC6_ExactlyOneStartAndEnd ==
    NormalizerRan =>
        /\ pc = "LanesNormalized"
        /\ Len(all_lanes) = Len(input_lanes)
        /\ \A i \in DOMAIN all_lanes :
               /\ CountType(all_lanes[i].elements, "startEvent") = 1
               /\ CountType(all_lanes[i].elements, "endEvent") = 1

-----------------------------------------------------------------------------
(* Claims about what the merge leaves of the normaliser's insertions *)

Merged == pc \in { "Merged", "FlowsAdded", "PoolWrapped", "Done" }
FlowsAdded == pc \in { "FlowsAdded", "PoolWrapped", "Done" }

\* The ids of what the normaliser inserts (generator.py 232, 239, 247, 254).
NormalizerIds ==
    { "mock_start_event", "mock_start_event_flow", "mock_end_event", "end_event_flow" }

\* C8: after the merge the merged process and the merged plane hold none of the items
\* the normaliser inserted: the mock start event, the mock end event, the two
\* synthetic flows, their shapes and their edges, of the base and of later fragments.
ClaimC8_NoArtifact ==
    Merged =>
        /\ \A i \in DOMAIN merged_xml.children : merged_xml.children[i].id \notin NormalizerIds
        /\ \A i \in DOMAIN merged_xml.plane :
               merged_xml.plane[i].bpmnElement \notin NormalizerIds

\* The places of a document an id can occur in.
Occurs(doc, id) ==
    \/ \E i \in DOMAIN doc.children :
           id \in { doc.children[i].id, doc.children[i].sourceRef, doc.children[i].targetRef }
    \/ \E i \in DOMAIN doc.plane : doc.plane[i].bpmnElement = id
    \/ \E i \in DOMAIN doc.lanes : id \in Range(doc.lanes[i].refs)

LackedStart(lane) == CountType(lane.elements, "startEvent") = 0

\* C9: when a lane had no start event, after the merge the ids mock_start_event and
\* mock_start_event_flow occur nowhere in the document: not as element or flow, not as
\* shape or edge, not in a lane's flowNodeRefs and not as a reference of an element.
ClaimC9_NoMockStartId ==
    (Merged /\ \E i \in DOMAIN input_lanes : LackedStart(input_lanes[i])) =>
        /\ ~Occurs(merged_xml, "mock_start_event")
        /\ ~Occurs(merged_xml, "mock_start_event_flow")
        /\ pc = "Done" => ~Occurs(result, "mock_start_event")
                          /\ ~Occurs(result, "mock_start_event_flow")

MergedNodeIds == { FlowNodes(merged_xml)[i].id : i \in DOMAIN FlowNodes(merged_xml) }
InputNodeIds ==
    UNION { { input_lanes[i].elements[j].id : j \in DOMAIN input_lanes[i].elements }
            : i \in DOMAIN input_lanes }

\* C10: when all N fragments are merged, the flow nodes of the merged process are
\* exactly the elements of the N input lanes (the mock events excepted), and no
\* flow-node id occurs twice.
ClaimC10_UnionOfElements ==
    (Merged /\ Len(merged_from) = Len(input_lanes)) =>
        /\ MergedNodeIds = InputNodeIds
        /\ Cardinality(MergedNodeIds) = Len(FlowNodes(merged_xml))

\* The elements of the input lanes whose id holds the text mock_start or mock_end;
\* none of them was inserted by the normaliser.
OddInputIds == { id \in InputNodeIds : IsMockElement(id) }

\* C11: the merger strips an element only when the normaliser inserted it, never for
\* the text of its id: an element of an input lane whose id merely contains mock_start
\* or mock_end is, with its shape, in the merged process and diagram.
ClaimC11_StripsOnlyInserted ==
    (Merged /\ Len(merged_from) = Len(input_lanes)) =>
        \A id \in OddInputIds :
            /\ id \in MergedNodeIds
            /\ FindShape(merged_xml.plane, id) /= NoShape

\* The fragments handed to merge_xml_lanes that lack a process or a diagram plane.
Lacking == { i \in DOMAIN set_lanes : ~set_lanes[i].process \/ ~set_lanes[i].hasPlane }

\* C17: when a fragment, the base or a later one, lacks a process element or a
\* diagram plane, the merge fails: no merged document is produced, not even one that
\* leaves the fragment out.
ClaimC17_LackingIsFatal ==
    (Len(set_lanes) = Len(xml_lanes_list) /\ Lacking /= {}) =>
        /\ ~Merged
        /\ merged_xml = EmptyDoc
        /\ result = NoResult

NodeIds(doc) == { FlowNodes(doc)[i].id : i \in DOMAIN FlowNodes(doc) }
Intact(doc) ==
    \A i \in DOMAIN SeqFlows(doc) :
        /\ SeqFlows(doc)[i].sourceRef \in NodeIds(doc)
        /\ SeqFlows(doc)[i].targetRef \in NodeIds(doc)

\* C20: in the merged document, before and after the cross-lane flows and the pool
\* are added, every sequenceFlow has a sourceRef and a targetRef that are ids of
\* elements of the merged process; none refers to a stripped mock element or to an
\* element of a fragment that was left out.
ClaimC20_ReferentialIntegrity ==
    /\ Merged => Intact(merged_xml)
    /\ FlowsAdded => Intact(complete_xml)
    /\ pc = "Done" => Intact(result)

-----------------------------------------------------------------------------
(* Claims about the geometry of the merged diagram *)

\* The shape of the i-th lane of a document.
LaneShape(doc, i) == FindShape(doc.plane, doc.lanes[i].id)

Stacked(doc) ==
    \A i \in 1..(Len(doc.lanes) - 1) :
        LaneShape(doc, i + 1).y = LaneShape(doc, i).y + LaneShape(doc, i).height

\* C12: after the merge, for every two consecutive lanes in merge order the shape of
\* the later lane has y = (y of the earlier lane) + (height of the earlier lane); the
\* same holds in the returned document.
TheoremC12_Stacked ==
    /\ Merged => Stacked(merged_xml)
    /\ pc = "Done" => Stacked(result)

\* Three lanes of two different heights were merged and the run returned.
WitnessC12_Stacked ==
    /\ pc = "Done"
    /\ Len(result.lanes) >= 3
    /\ LaneShape(result, 1).height /= LaneShape(result, 2).height
    /\ LaneShape(result, 3).y > LaneShape(result, 2).y

\* The width the lane of fragment i had before the merge (merger.py 201, 234).
FragmentLaneWidth(i) == GetLaneBounds(set_lanes[i].plane, set_lanes[i].lanes[1].id).width
MergedLaneWidths == { FragmentLaneWidth(merged_from[k]) : k \in DOMAIN merged_from }

EqualWidths(doc) ==
    \A i \in DOMAIN doc.lanes : LaneShape(doc, i).width = SetMax(MergedLaneWidths)

\* C13: after the merge every lane shape has the same width, the maximum of the lane
\* widths of all merged fragments, the base included, whatever the order of wide and
\* narrow lanes.
TheoremC13_EqualWidths ==
    /\ Merged => EqualWidths(merged_xml)
    /\ pc = "Done" => EqualWidths(result)

\* A wide lane was folded in before a narrow one, after a narrow base.
WitnessC13_EqualWidths ==
    /\ pc = "Done"
    /\ Len(merged_from) >= 3
    /\ FragmentLaneWidth(merged_from[1]) < FragmentLaneWidth(merged_from[2])
    /\ FragmentLaneWidth(merged_from[3]) < FragmentLaneWidth(merged_from[2])

\* The lane shapes of the merged diagram, in the order of the plane.
HorizontalShapes(doc) ==
    SelectSeq(doc.plane, LAMBDA d : d.tag = "BPMNShape" /\ d.isHorizontal)
RECURSIVE TotalHeight(_)
TotalHeight(shapes) ==
    IF shapes = <<>> THEN 0 ELSE Head(shapes).height + TotalHeight(Tail(shapes))

\* C16: the participant shape has x = (least lane x) - 30, y = least lane y,
\* width = (width of the first lane) + 30 and height = the sum of the heights of all
\* lane shapes of the merged diagram.
TheoremC16_ParticipantBounds ==
    pc \in { "PoolWrapped", "Done" } =>
        LET lanes == HorizontalShapes(merged_xml)
            participant == FindShape(complete_xml.plane, ParticipantId)
        IN  /\ participant /= NoShape
            /\ participant.x = SetMin({ lanes[i].x : i \in DOMAIN lanes }) - 30
            /\ participant.y = SetMin({ lanes[i].y : i \in DOMAIN lanes })
            /\ participant.width = LaneShape(merged_xml, 1).width + 30
            /\ participant.height = TotalHeight(lanes)

\* The pool was put around three lanes of two different heights.
WitnessC16_ParticipantBounds ==
    /\ pc = "Done"
    /\ Len(HorizontalShapes(merged_xml)) >= 3
    /\ LaneShape(merged_xml, 1).height /= LaneShape(merged_xml, 3).height
    /\ FindShape(result.plane, ParticipantId).height > LaneShape(merged_xml, 1).height

-----------------------------------------------------------------------------
(* Claims about the reinserted cross-lane flows *)

Located(doc, id) == FindShape(doc.plane, id) /= NoShape
SeqFlowsWithId(doc, id) ==
    { i \in DOMAIN doc.children :
        doc.children[i].tag = "sequenceFlow" /\ doc.children[i].id = id }
EdgesOf(doc, id) ==
    { i \in DOMAIN doc.plane : doc.plane[i].tag = "BPMNEdge" /\ doc.plane[i].bpmnElement = id }
ExactlyOnce(doc, id) ==
    /\ Cardinality(SeqFlowsWithId(doc, id)) = 1
    /\ Cardinality(EdgesOf(doc, id)) = 1
    /\ \A i \in EdgesOf(doc, id) : Len(doc.plane[i].waypoints) = 2

EndpointsLocated(flow) ==
    Located(merged_xml, flow.sourceRef) /\ Located(merged_xml, flow.targetRef)
OnceInBoth(id) ==
    /\ ExactlyOnce(complete_xml, id)
    /\ again_xml /= EmptyDoc => ExactlyOnce(again_xml, id)

\* C14: for every cross-lane flow whose source and target have located shapes in the
\* merged diagram, after the flows are added the document holds exactly one
\* sequenceFlow with that id and exactly one edge for it, of exactly two waypoints;
\* also when the id is listed twice and when the operation is applied again.
ClaimC14_ExactlyOnce ==
    FlowsAdded =>
        \A k \in DOMAIN different_flow :
            EndpointsLocated(different_flow[k]) => OnceInBoth(different_flow[k].id)

\* C14, amended: the same for the cross-lane flows whose id is not empty and is not
\* the id of a sequenceFlow that the merged process holds already.
Insertable(flow) ==
    /\ flow.id /= ""
    /\ SeqFlowsWithId(merged_xml, flow.id) = {}
    /\ EndpointsLocated(flow)
TheoremC14_ExactlyOnce ==
    FlowsAdded =>
        \A k \in DOMAIN different_flow :
            Insertable(different_flow[k]) => OnceInBoth(different_flow[k].id)

\* An id listed twice, both times with located endpoints, and the operation applied a
\* second time.
WitnessC14_ExactlyOnce ==
    /\ FlowsAdded
    /\ again_xml /= EmptyDoc
    /\ Len(different_flow) >= 2
    /\ different_flow[1].id = different_flow[2].id
    /\ Insertable(different_flow[1])
    /\ Insertable(different_flow[2])

\* The flow that is inserted under an id: the first insertable one of the list.
FirstWithId(k) ==
    /\ Insertable(different_flow[k])
    /\ \A j \in 1..(k - 1) :
           Insertable(different_flow[j]) => different_flow[j].id /= different_flow[k].id
TheEdge(doc, id) == doc.plane[CHOOSE i \in EdgesOf(doc, id) : TRUE]
SourceShape(flow) == FindShape(merged_xml.plane, flow.sourceRef)
TargetShape(flow) == FindShape(merged_xml.plane, flow.targetRef)

\* The y of the two waypoints: bottom to top when the source's top is strictly above
\* the target's top, top to bottom otherwise.
VerticalRule(flow, waypoints) ==
    LET s == SourceShape(flow)
        t == TargetShape(flow)
    IN  IF s.y < t.y
        THEN waypoints[1].y = s.y + s.height /\ waypoints[2].y = t.y
        ELSE waypoints[1].y = s.y /\ waypoints[2].y = t.y + t.height

\* x is the horizontal midpoint of the shape.
AtMidpoint(x, shape) == 2 * x = 2 * shape.x + shape.width

\* x is the horizontal midpoint of the shape rounded to a whole number, a half to the
\* even neighbour.
AtRoundedMidpoint(x, shape) ==
    \/ AtMidpoint(x, shape)
    \/ /\ x % 2 = 0
       /\ 2 * x \in { 2 * shape.x + shape.width - 1, 2 * shape.x + shape.width + 1 }

-----------------------------------------------------------------------------
(* Claims about the failures of the layout and of the rendering *)

\* The output of the layout call is empty or shorter than four fifths of its input.
TooShort(answer) == answer.out_len = 0 \/ 5 * answer.out_len < 4 * answer.in_len

\* C18: the output of the layout tool is accepted only when it is not empty and at
\* least 80% as long as the input; an undersized output makes the run fail with a
\* BPMNLayoutError, the output reaches neither the lane-shape step nor the merge, and
\* the fragment is not used without its layout.
TheoremC18_UndersizedRejected ==
    \A k \in DOMAIN layout_answers :
        /\ (layout_answers[k].exit = "zero" /\ TooShort(layout_answers[k])) =>
               /\ k = Len(layout_answers)
               /\ Len(layout_calls) = k
               /\ Len(set_lanes) = k - 1
               /\ pc = "Failed"
               /\ error.kind = "BPMNLayoutError"
               /\ merged_xml = EmptyDoc
               /\ result = NoResult
        /\ Len(set_lanes) >= k =>
               layout_answers[k].exit = "zero" /\ ~TooShort(layout_answers[k])

\* The first lane was laid out and the output for the second lane was half as long
\* as its input.
WitnessC18_UndersizedRejected ==
    /\ Len(layout_answers) = 2
    /\ layout_answers[2].exit = "zero"
    /\ layout_answers[2].out_len = layout_answers[2].in_len \div 2
    /\ Len(set_lanes) = 1
    /\ pc = "Failed"

\* C19: when the text rendered for a lane lacks the <file> wrapper, the run fails at
\* once with a BPMNValidationError: the lane is not rendered again, no later lane is
\* rendered, and neither the layout nor the merge runs.
TheoremC19_MissingWrapperFatal ==
    \A k \in DOMAIN render_answers :
        render_answers[k] = "no_wrapper" =>
            /\ k = Len(render_answers)
            /\ Len(render_calls) = k
            /\ render_calls[k] = all_lanes[k]
            /\ Len(xml_lanes_list) = k - 1
            /\ pc = "Failed"
            /\ error.kind = "BPMNValidationError"
            /\ error.msg = "Failed to generate BPMN file."
            /\ layout_calls = <<>>
            /\ set_lanes = <<>>
            /\ merged_xml = EmptyDoc
            /\ result = NoResult

\* The text for the first of two lanes had no wrapper.
WitnessC19_MissingWrapperFatal ==
    /\ Len(all_lanes) = 2
    /\ Len(render_answers) = 1
    /\ render_answers[1] = "no_wrapper"
    /\ pc = "Failed"

-----------------------------------------------------------------------------
(* Claims about the order of the lanes and about add_lane_shape *)

\* The fragment is the one of the i-th lane of the input.
FragmentOf(fragment, i) ==
    /\ Len(fragment.lanes) = 1
    /\ fragment.lanes[1].id = input_lanes[i].id
    /\ \A j \in DOMAIN input_lanes[i].elements :
           input_lanes[i].elements[j].id \in Range(fragment.lanes[1].refs)

\* C21: the list handed to the merge has at position i the fragment of lane i of the
\* input; the first input lane is the base and the merged lanes are stacked from top
\* to bottom in the order of the input.
TheoremC21_LaneOrder ==
    /\ \A i \in DOMAIN xml_lanes_list : FragmentOf(xml_lanes_list[i], i)
    /\ \A i \in DOMAIN set_lanes : FragmentOf(set_lanes[i], i)
    /\ Merged =>
           /\ merged_xml.lanes[1].id = input_lanes[1].id
           /\ Len(merged_xml.lanes) = Len(merged_from)
           /\ \A k \in DOMAIN merged_from :
                  merged_xml.lanes[k].id = input_lanes[merged_from[k]].id
           /\ \A k \in 1..(Len(merged_from) - 1) :
                  /\ merged_from[k] < merged_from[k + 1]
                  /\ LaneShape(merged_xml, k).y < LaneShape(merged_xml, k + 1).y

\* Three lanes were rendered, laid out and merged.
WitnessC21_LaneOrder ==
    /\ pc = "Done"
    /\ Len(input_lanes) = 3
    /\ merged_from = << 1, 2, 3 >>
    /\ result.lanes[3].id = input_lanes[3].id

\* The shapes a plane holds for an element.
ShapesOf(plane, id) ==
    { k \in DOMAIN plane : plane[k].tag = "BPMNShape" /\ plane[k].bpmnElement = id }
LaneId(fragment) == fragment.lanes[1].id

\* C22: add_lane_shape applied again to its own output gives the same lane bounds and
\* still exactly one shape for the lane; nothing else of the document changes.
TheoremC22_LaneShapeIdempotent ==
    again_set_lanes /= <<>> =>
        \A i \in DOMAIN set_lanes :
            /\ again_set_lanes[i] = set_lanes[i]
            /\ FindShape(set_lanes[i].plane, LaneId(set_lanes[i])) /= NoShape =>
                   /\ Cardinality(ShapesOf(again_set_lanes[i].plane, LaneId(set_lanes[i]))) = 1
                   /\ FindShape(again_set_lanes[i].plane, LaneId(set_lanes[i]))
                          = FindShape(set_lanes[i].plane, LaneId(set_lanes[i]))

\* add_lane_shape ran a second time on three fragments that have a lane shape.
WitnessC22_LaneShapeIdempotent ==
    /\ Len(again_set_lanes) = 3
    /\ \A i \in DOMAIN set_lanes :
           FindShape(set_lanes[i].plane, LaneId(set_lanes[i])) /= NoShape

\* The shapes of the flow nodes a lane refers to, as the layout placed them.
ReferredShapes(fragment) ==
    { fragment.plane[k] : k \in { k \in DOMAIN fragment.plane :
                                     /\ fragment.plane[k].tag = "BPMNShape"
                                     /\ fragment.plane[k].bpmnElement
                                            \in Range(fragment.lanes[1].refs) } }

\* C23: the lane's bounds are the bounding box of the located shapes of the flow
\* nodes the lane refers to, padded by 60 on every side; references without a shape
\* in the plane do not count.
TheoremC23_LaneBounds ==
    \A i \in DOMAIN set_lanes :
        (set_lanes[i].hasPlane /\ ReferredShapes(set_lanes[i]) /= {}) =>
            LET located == ReferredShapes(set_lanes[i])
                lane == FindShape(set_lanes[i].plane, LaneId(set_lanes[i]))
                min_x == SetMin({ sh.x : sh \in located })
                min_y == SetMin({ sh.y : sh \in located })
            IN  /\ lane /= NoShape
                /\ lane.x = min_x - 60
                /\ lane.y = min_y - 60
                /\ lane.width = (SetMax({ sh.x + sh.width : sh \in located }) - min_x) + 120
                /\ lane.height = (SetMax({ sh.y + sh.height : sh \in located }) - min_y) + 120

\* A lane got its shape although one of the flow nodes it refers to has no shape,
\* from shapes on two rows.
WitnessC23_LaneBounds ==
    \E i \in DOMAIN set_lanes :
        /\ set_lanes[i].hasPlane
        /\ Cardinality(ReferredShapes(set_lanes[i])) >= 2
        /\ Cardinality(ReferredShapes(set_lanes[i])) < Len(set_lanes[i].lanes[1].refs)
        /\ Cardinality({ sh.y : sh \in ReferredShapes(set_lanes[i]) }) = 2
        /\ FindShape(set_lanes[i].plane, LaneId(set_lanes[i])) /= NoShape

-----------------------------------------------------------------------------
(* Claims about validate_description *)

Acceptable(text) ==
    /\ text.core > 0
    /\ Chars(text) >= 10
    /\ Chars(text) <= 10000

\* C24: validate_description accepts a description exactly when it is not blank and
\* its length is between 10 and 10,000 inclusive, and returns it without the
\* surrounding whitespace; every other description is rejected with the
\* FileHandlerError of the exceptions module.
ClaimC24_ValidateDescription ==
    /\ pc = "Validated" =>
           /\ Acceptable(description)
           /\ validated = Strip(description)
           /\ description.left + description.right = 0 => validated = description
    /\ pc = "Rejected" =>
           /\ ~Acceptable(description)
           /\ error.kind = "FileHandlerError"

-----------------------------------------------------------------------------
(* Claims about how errors reach the caller of generate_bpmn *)

\* C25: every error raised by a stage reaches the caller of generate_bpmn as the same
\* kind with the same message and ends the run without a document; a failure of
\* merge_xml_lanes on the base fragment is reported as raised, under no other kind.
ClaimC25_ErrorsUnmodified ==
    pc = "Failed" =>
        /\ error.kind = stage_error.kind
        /\ error.msg = stage_error.msg
        /\ result = NoResult

\* C28: a service error of the generative collaborator in the JSON step is retried
\* within the budget of 3 attempts: after attempt k < 3 has failed with a service
\* error the step goes on to a further attempt, and the run does not fail before 3
\* attempts have failed.
ClaimC28_ServiceErrorRetried ==
    \A k \in DOMAIN responses :
        (responses[k].kind = "service_error" /\ k < MaxAttempts) =>
            \/ attempt > k
            \/ attempt = k /\ pc = "Init"

-----------------------------------------------------------------------------
(* Claims about the wiring of the inserted mock events *)

HasType(elements, type) == \E i \in DOMAIN elements : elements[i].type = type
\* The sequence flows of a lane before any insertion: its own, then its same-lane flows.
FlowsBefore(lane) ==
    (IF "sequenceFlows" \in DOMAIN lane THEN lane.sequenceFlows ELSE <<>>)
        \o GetList(same_flow, lane.id)
StartWiring(elements) ==
    IF HasType(elements, "startEvent") THEN <<>>
    ELSE << [id |-> "mock_start_event_flow", sourceRef |-> "mock_start_event",
             targetRef |-> elements[1].id] >>
EndWiring(elements) ==
    IF HasType(elements, "endEvent") THEN <<>>
    ELSE << [id |-> "end_event_flow", sourceRef |-> elements[Len(elements)].id,
             targetRef |-> "mock_end_event"] >>

\* C26: a non-empty lane without a startEvent gets mock_start_event at position 0 of
\* its elements and, at position 0 of its flows, a flow from mock_start_event to the
\* element that was first; without an endEvent it gets mock_end_event as its last
\* element and, as its last flow, a flow from the element that was last to
\* mock_end_event; a lane that has an event of a kind gets no insertion of that kind.
TheoremC26_MockWiring ==
    pc = "LanesNormalized" =>
        \A i \in DOMAIN all_lanes :
            LET before == input_lanes[i].elements
            IN  before /= <<>> =>
                    /\ all_lanes[i].elements =
                           (IF HasType(before, "startEvent") THEN <<>> ELSE << MockStart >>)
                               \o before
                               \o (IF HasType(before, "endEvent") THEN <<>> ELSE << MockEnd >>)
                    /\ all_lanes[i].sequenceFlows =
                           StartWiring(before) \o FlowsBefore(input_lanes[i])
                               \o EndWiring(before)

\* Normalised: a lane of two elements that had neither event and has same-lane
\* flows, and a lane that had an endEvent of its own.
WitnessC26_MockWiring ==
    /\ pc = "LanesNormalized"
    /\ \E i \in DOMAIN all_lanes :
           /\ Len(input_lanes[i].elements) = 2
           /\ input_lanes[i].elements[1] /= input_lanes[i].elements[2]
           /\ ~HasType(input_lanes[i].elements, "startEvent")
           /\ ~HasType(input_lanes[i].elements, "endEvent")
           /\ GetList(same_flow, input_lanes[i].id) /= <<>>
           /\ Len(all_lanes[i].elements) = 4
    /\ \E j \in DOMAIN all_lanes :
           /\ HasType(input_lanes[j].elements, "endEvent")
           /\ all_lanes[j].elements[Len(all_lanes[j].elements)] /= MockEnd

-----------------------------------------------------------------------------
(* Claims about the fragments the merge passes over *)

\* Fragment i is no base, has process, plane and lane set, and no shape for its lane.
Unbounded(i) ==
    /\ i > 1
    /\ set_lanes[i].process /\ set_lanes[i].hasPlane /\ set_lanes[i].laneSet
    /\ set_lanes[i].lanes /= <<>>
    /\ GetLaneBounds(set_lanes[i].plane, LaneId(set_lanes[i])) = NoShape
OwnIds(fragment) ==
    { fragment.children[j].id : j \in DOMAIN fragment.children }
        \cup { fragment.lanes[j].id : j \in DOMAIN fragment.lanes }
\* The ids only fragment i has among the fragments merged (the ids the normaliser
\* gives its inserted elements and flows are the same in every fragment).
OnlyIn(i) ==
    OwnIds(set_lanes[i]) \ UNION { OwnIds(set_lanes[merged_from[k]]) : k \in DOMAIN merged_from }
PlaneIds(doc) == { doc.plane[k].bpmnElement : k \in DOMAIN doc.plane }
Bounded(fragment) ==
    ~ ( /\ fragment.process /\ fragment.hasPlane /\ fragment.laneSet
        /\ fragment.lanes /= <<>>
        /\ GetLaneBounds(fragment.plane, LaneId(fragment)) = NoShape )

\* C27: a non-base fragment without lane bounds does not fail the merge and is left
\* out whole: its lane, its process elements, its shapes and its edges are not in the
\* merged document, and the running offset, height and maximum width are as they
\* were, so the next fragment lies directly below the last one that was merged and
\* the document is the one the merge gives without the fragment.
TheoremC27_SkippedWhole ==
    (pc = "Merged" /\ \E i \in DOMAIN set_lanes : Unbounded(i)) =>
        /\ \A i \in DOMAIN set_lanes :
               Unbounded(i) =>
                   /\ i \notin Range(merged_from)
                   /\ \A j \in DOMAIN merged_xml.lanes :
                          merged_xml.lanes[j].id /= LaneId(set_lanes[i])
                   /\ \A j \in DOMAIN merged_xml.children :
                          merged_xml.children[j].id \notin OnlyIn(i)
                   /\ PlaneIds(merged_xml) \cap OnlyIn(i) = {}
        /\ \A k \in 1..(Len(merged_from) - 1) :
               LET last == GetLaneBounds(set_lanes[merged_from[k]].plane,
                                         LaneId(set_lanes[merged_from[k]]))
               IN  LaneShape(merged_xml, k + 1).y
                       = LaneShape(merged_xml, k).y + last.height
        /\ \A k \in DOMAIN merged_xml.lanes :
               LaneShape(merged_xml, k).width = SetMax(MergedLaneWidths)
        /\ merged_xml =
               MergeXmlLanes(<< Head(set_lanes) >> \o SelectSeq(Tail(set_lanes), Bounded)).doc

\* Of three fragments the second had no lane bounds and the third was merged.
WitnessC27_SkippedWhole ==
    /\ pc = "Merged"
    /\ Len(set_lanes) = 3
    /\ Unbounded(2)
    /\ merged_from = << 1, 3 >>
    /\ Len(merged_xml.lanes) = 2
    /\ Cardinality(OnlyIn(2)) >= 2

-----------------------------------------------------------------------------
(* Claims about what the lanes and the pool enclose *)

\* The shapes a document holds for the flow nodes its k-th lane refers to.
NodeShapes(doc, k) ==
    { doc.plane[j] : j \in { j \in DOMAIN doc.plane :
                               /\ doc.plane[j].tag = "BPMNShape"
                               /\ ~doc.plane[j].isHorizontal
                               /\ doc.plane[j].bpmnElement \in Range(doc.lanes[k].refs) } }
\* sh lies in box with the padding of add_lane_shape on the left, at the top and at the
\* bottom, and not beyond its right edge.
Padded(sh, box) ==
    /\ box.x + LanePadding <= sh.x
    /\ sh.x + sh.width <= box.x + box.width
    /\ box.y + LanePadding <= sh.y
    /\ sh.y + sh.height + LanePadding <= box.y + box.height
Inside(sh, box) ==
    /\ box.x <= sh.x /\ sh.x + sh.width <= box.x + box.width
    /\ box.y <= sh.y /\ sh.y + sh.height <= box.y + box.height
Contained(doc) ==
    \A k \in DOMAIN doc.lanes :
        \A sh \in NodeShapes(doc, k) :
            /\ Padded(sh, LaneShape(doc, k))
            /\ \A other \in DOMAIN doc.lanes :
                   other /= k => ~Inside(sh, LaneShape(doc, other))
\* The k-th merged lane and the shapes of its flow nodes are where the fragment had
\* them, moved by one vector.
MovedTogether(doc, k) ==
    LET fragment == set_lanes[merged_from[k]]
        was == GetLaneBounds(fragment.plane, LaneId(fragment))
        now == LaneShape(doc, k)
    IN  \A sh \in NodeShapes(doc, k) :
            \E old \in ReferredShapes(fragment) :
                /\ old.bpmnElement = sh.bpmnElement
                /\ sh.x - old.x = now.x - was.x
                /\ sh.y - old.y = now.y - was.y

\* C29: in the merged diagram every shape of a flow node a lane refers to lies inside
\* the shape of that lane, at least 60 from its left, top and bottom edge, and inside
\* the shape of no other lane; the shapes of a fragment and the shape of its lane are
\* moved by the same vector.
TheoremC29_Containment ==
    /\ Merged =>
           /\ Contained(merged_xml)
           /\ \A k \in DOMAIN merged_from : MovedTogether(merged_xml, k)
    /\ pc = "Done" => Contained(result)

\* Three lanes were merged and returned, the later two moved, one lane on two rows.
WitnessC29_Containment ==
    /\ pc = "Done"
    /\ merged_from = << 1, 2, 3 >>
    /\ \A k \in 1..3 : NodeShapes(result, k) /= {}
    /\ \E k \in 2..3 : Cardinality({ sh.y : sh \in NodeShapes(result, k) }) >= 2
    /\ \E k \in 2..3 :
           LaneShape(result, k).y
               /= GetLaneBounds(set_lanes[k].plane, LaneId(set_lanes[k])).y
    /\ \E k \in 2..3 :
           LaneShape(result, k).x
               /= GetLaneBounds(set_lanes[k].plane, LaneId(set_lanes[k])).x

\* The lane shapes of a document, in the order of its lane set.
LaneShapes(doc) == [k \in DOMAIN doc.lanes |-> LaneShape(doc, k)]

\* C30: on the document of merge_lanes, runs with skipped fragments included, the
\* participant's height, the sum of the lane heights, equals max(lane y + lane
\* height) - min(lane y); the participant's right edge, top and bottom are those of
\* the stacked lanes and its left edge is 30 to the left of theirs, so every lane
\* shape lies inside the participant shape.
TheoremC30_PoolCoversLanes ==
    pc \in { "PoolWrapped", "Done" } =>
        LET lanes == LaneShapes(complete_xml)
            participant == FindShape(complete_xml.plane, ParticipantId)
        IN  /\ participant /= NoShape
            /\ participant.height = SpanHeight(lanes)
            /\ participant.y = SetMin({ lanes[k].y : k \in DOMAIN lanes })
            /\ participant.y + participant.height
                   = SetMax({ lanes[k].y + lanes[k].height : k \in DOMAIN lanes })
            /\ \A k \in DOMAIN lanes :
                   /\ lanes[k] /= NoShape
                   /\ participant.x = lanes[k].x - PoolMargin
                   /\ participant.x + participant.width = lanes[k].x + lanes[k].width
                   /\ Inside(lanes[k], participant)

\* The pool was put around two lanes of different heights, the wider one merged
\* after a fragment that was skipped.
WitnessC30_PoolCoversLanes ==
    /\ pc = "Done"
    /\ Len(set_lanes) = 3
    /\ Unbounded(2)
    /\ merged_from = << 1, 3 >>
    /\ FragmentLaneWidth(1) < FragmentLaneWidth(3)
    /\ LaneShape(result, 1).height /= LaneShape(result, 2).height
    /\ FindShape(result.plane, ParticipantId).height
           = LaneShape(result, 1).height + LaneShape(result, 2).height

====
